---- MODULE Spec2Model ----
(***************************************************************************)
(* The 2D rigid-body engine of togl (namespace physics): bodies, joints,   *)
(* the world step with its integration, joint pass, collision sweeps and   *)
(* rest bookkeeping.                                                        *)
(*                                                                         *)
(* Numbers.  The engine computes with IEEE doubles.  Here every real is a  *)
(* fixed-point integer with Scale units per 1.0 (1.5 is 1500), rounded to  *)
(* nearest, symmetrically in the sign, after every operation.  fps is a    *)
(* plain integer.  A product by a reciprocal (v * (1/d)) is evaluated as   *)
(* the quotient v/d, which is what the double computation yields up to an  *)
(* ulp.                                                                    *)
(***************************************************************************)
EXTENDS Integers, Sequences, FiniteSets, TLC

Scale == 1000

Abs(a) == IF a < 0 THEN -a ELSE a
Sgn(a) == IF a < 0 THEN -1 ELSE IF a > 0 THEN 1 ELSE 0
Min(a, b) == IF a < b THEN a ELSE b
Max(a, b) == IF a > b THEN a ELSE b

\* round(p / q) for p >= 0, q > 0
RoundDivPos(p, q) == (2 * p + q) \div (2 * q)

\* a / d for a fixed-point a and a plain integer d (d # 0)
IDiv(a, d) == Sgn(a) * Sgn(d) * RoundDivPos(Abs(a), Abs(d))

\* a * b of two fixed-point numbers
Mul(a, b) ==
    LET p == Abs(a)
        q == Abs(b)
    IN  Sgn(a) * Sgn(b) * (p * (q \div Scale) + RoundDivPos(p * (q % Scale), Scale))

\* a / b of two fixed-point numbers (b # 0)
Div(a, b) ==
    LET p == Abs(a)
        q == Abs(b)
    IN  Sgn(a) * Sgn(b) * ((p \div q) * Scale + RoundDivPos((p % q) * Scale, q))

RECURSIVE ISqrtBetween(_, _, _)
\* the largest r in lo..hi with r*r <= n
ISqrtBetween(n, lo, hi) ==
    IF lo >= hi THEN lo
    ELSE LET mid == (lo + hi + 1) \div 2
         IN  IF mid * mid <= n THEN ISqrtBetween(n, mid, hi)
             ELSE ISqrtBetween(n, lo, mid - 1)

\* round(sqrt(n)) for a plain integer 0 <= n < 2^31
ISqrt(n) ==
    LET r == ISqrtBetween(n, 0, 46340)
    IN  IF n - r * r > r THEN r + 1 ELSE r

\* Math.sqrt of a fixed-point number
Sqrt(a) ==
    IF a <= 0 THEN 0
    ELSE IF a <= 2000000 THEN ISqrt(a * Scale)
    ELSE 10 * ISqrt(a * (Scale \div 100))

(***************************************************************************)
(* 2D vector tools                                                         *)
(***************************************************************************)
newVec2(x, y) == [x |-> x, y |-> y]

addVec2(v, w) == newVec2(v.x + w.x, v.y + w.y)

scaleVec2(v, n) == newVec2(Mul(v.x, n), Mul(v.y, n))

subtractVec2(v, w) == addVec2(v, scaleVec2(w, -Scale))

dotProduct(v, w) == Mul(v.x, w.x) + Mul(v.y, w.y)

crossProduct(v, w) == Mul(v.x, w.y) - Mul(v.y, w.x)

\* dotProduct(v, v) ** .5, with the squares taken on the integers so that the
\* root of a short vector keeps its digits; long vectors are scaled down first
lengthVec2(v) ==
    LET m == Max(Abs(v.x), Abs(v.y))
        f == (m \div 30000) + 1
    IN  f * ISqrt((v.x \div f) * (v.x \div f) + (v.y \div f) * (v.y \div f))

\* scaleVec2(v, 1 / d) for a fixed-point d
scaleInvVec2(v, d) == newVec2(Div(v.x, d), Div(v.y, d))

\* scaleVec2(v, 1 / fps) for the plain integer fps
scaleByFrame(v, fps) == newVec2(IDiv(v.x, fps), IDiv(v.y, fps))

\* scaleVec2(v, 1 / (lengthVec2(v) || 1))
normalize(v) ==
    LET l == lengthVec2(v)
    IN  scaleInvVec2(v, IF l = 0 THEN Scale ELSE l)

Pi == 3142

\* x reduced to -Pi..Pi modulo 2*Pi
WrapAngle(x) ==
    LET r == x % (2 * Pi)
    IN  IF r > Pi THEN r - 2 * Pi ELSE r

\* the sine series on -Pi/2..Pi/2
SinSeries(x) ==
    LET x2 == Mul(x, x)
        x3 == Mul(x2, x)
        x5 == Mul(x3, x2)
        x7 == Mul(x5, x2)
        x9 == Mul(x7, x2)
    IN  x - IDiv(x3, 6) + IDiv(x5, 120) - IDiv(x7, 5040) + IDiv(x9, 362880)

\* the angle of -Pi/2..Pi/2 with the sine of x, for x in -Pi..Pi
FoldAngle(x) ==
    IF 2 * x > Pi THEN Pi - x
    ELSE IF 2 * x < -Pi THEN -Pi - x
    ELSE x

\* Math.sin
Sin(a) == SinSeries(FoldAngle(WrapAngle(a)))

\* Math.cos
Cos(a) == Sin(a + Pi \div 2)

\* rotateVec2 with x = v.x - center.x, y = v.y - center.y and the cosine and sine at hand
rotateOffset(x, y, center, c, s) ==
    newVec2(Mul(x, c) - Mul(y, s) + center.x, Mul(x, s) + Mul(y, c) + center.y)

rotateVec2(v, center, angle) ==
    rotateOffset(v.x - center.x, v.y - center.y, center, Cos(angle), Sin(angle))

(***************************************************************************)
(* Bodies                                                                  *)
(***************************************************************************)
CIRCLE == 0
RECTANGLE == 1

Faces == 0 .. 3

\* Math.floor
Floor(a) == (a \div Scale) * Scale

EmptyCollision == [depth |-> 0, normal |-> newVec2(0, 0), start |-> newVec2(0, 0), end |-> newVec2(0, 0)]

\* Collision info setter
setCollisionInfo(D, N, S) ==
    [depth |-> D, normal |-> N, start |-> S, end |-> addVec2(S, scaleVec2(N, D))]

calculateInertia(type, mass, bounds, width, height) ==
    IF type = RECTANGLE
    THEN IF mass > 0
         THEN Div(Scale, IDiv(Mul(mass, Mul(width, width) + Mul(height, height)), 12))
         ELSE 0
    ELSE IF mass > 0
         THEN IDiv(Mul(mass, Mul(bounds, bounds)), 12)
         ELSE 0

\* Compute face normals (for rectangles)
computeRectNormals(shape) ==
    [shape EXCEPT !.faceNormals =
        [i \in Faces |-> normalize(subtractVec2(shape.vertices[(i + 1) % 4], shape.vertices[(i + 2) % 4]))]]

\* New shape: the body createRigidShape pushes on world.bodies
createRigidShape(id, grav, center, mass, friction, restitution, type, bounds, width, height) ==
    LET shape ==
            [id |-> id,
             type |-> type,
             center |-> center,
             averageCenter |-> newVec2(center.x, center.y),
             friction |-> friction,
             restitution |-> restitution,
             mass |-> IF mass # 0 THEN Div(Scale, mass) ELSE 0,
             velocity |-> newVec2(0, 0),
             acceleration |-> IF mass # 0 THEN grav ELSE newVec2(0, 0),
             angle |-> 0,
             averageAngle |-> 0,
             angularVelocity |-> 0,
             angularAcceleration |-> 0,
             bounds |-> bounds,
             width |-> width,
             height |-> height,
             inertia |-> calculateInertia(type, mass, bounds, width, height),
             faceNormals |-> <<>>,
             vertices |-> [i \in Faces |->
                 CASE i = 0 -> newVec2(center.x - IDiv(width, 2), center.y - IDiv(height, 2))
                   [] i = 1 -> newVec2(center.x + IDiv(width, 2), center.y - IDiv(height, 2))
                   [] i = 2 -> newVec2(center.x + IDiv(width, 2), center.y + IDiv(height, 2))
                   [] OTHER -> newVec2(center.x - IDiv(width, 2), center.y + IDiv(height, 2))],
             pinned |-> FALSE,
             restingTime |-> 0]
    IN  IF type # 0 THEN computeRectNormals(shape) ELSE shape

\* New circle
createCircle(id, grav, center, radius, mass, friction, restitution) ==
    createRigidShape(id, grav, newVec2(Floor(center.x), Floor(center.y)), mass, friction, restitution,
                     CIRCLE, Floor(radius), 0, 0)

\* New rectangle
createRectangle(id, grav, center, width, height, mass, friction, restitution) ==
    createRigidShape(id, grav, newVec2(Floor(center.x), Floor(center.y)), mass, friction, restitution,
                     RECTANGLE, IDiv(lengthVec2(newVec2(Floor(width), Floor(height))), 2),
                     Floor(width), Floor(height))

\* the joint createJoint pushes on world.joints
createJoint(bodyA, bodyB, rigidity, elasticity) ==
    [bodyA |-> bodyA.id,
     bodyB |-> bodyB.id,
     distance |-> lengthVec2(subtractVec2(bodyA.center, bodyB.center)) + Scale \div 2,
     rigidity |-> rigidity,
     elasticity |-> elasticity]

allowPinnedRotation(body, mass) ==
    [body EXCEPT !.mass = mass,
                 !.inertia = calculateInertia(body.type, mass, body.bounds, body.width, body.height),
                 !.pinned = TRUE]

\* moveShape without its early return for pinned shapes: a fault the fixed
\* place of pinned bodies excludes
moveShapeAlways(shape, v) ==
    [shape EXCEPT !.center = addVec2(shape.center, v),
                  !.vertices = IF shape.type # 0
                               THEN [i \in Faces |-> addVec2(shape.vertices[i], v)]
                               ELSE shape.vertices]

\* Move a shape along a vector
moveShape(shape, v) ==
    IF shape.pinned THEN shape
    ELSE [shape EXCEPT !.center = addVec2(shape.center, v),
                       !.vertices = IF shape.type # 0
                                    THEN [i \in Faces |-> addVec2(shape.vertices[i], v)]
                                    ELSE shape.vertices]

\* rotateShape with the face normals left as they were: a fault the
\* agreement of normals and vertices excludes
rotateShapeStaleNormals(shape, angle) ==
    LET turned == [shape EXCEPT !.angle = shape.angle + angle]
    IN  IF shape.type # 0
        THEN [turned EXCEPT !.vertices =
                 [i \in Faces |-> rotateVec2(shape.vertices[i], shape.center, angle)]]
        ELSE turned

\* Rotate a shape around its center
rotateShape(shape, angle) ==
    LET turned == [shape EXCEPT !.angle = shape.angle + angle]
    IN  IF shape.type # 0
        THEN computeRectNormals(
                 [turned EXCEPT !.vertices =
                     [i \in Faces |-> rotateVec2(shape.vertices[i], shape.center, angle)]])
        ELSE turned

\* getWorldBounds: the box stretched to hold the points lo and hi
stretchBox(box, lo, hi) ==
    [min |-> newVec2(Min(box.min.x, lo.x), Min(box.min.y, lo.y)),
     max |-> newVec2(Max(box.max.x, hi.x), Max(box.max.y, hi.y))]

RECURSIVE vertexLoop(_, _, _)
\* getWorldBounds: for (const vert of body.vertices), from vertex n on
vertexLoop(box, body, n) ==
    IF n > 3 THEN box
    ELSE vertexLoop(stretchBox(box, body.vertices[n], body.vertices[n]), body, n + 1)

\* getWorldBounds: the body of the loop over world.bodies
stretchToBody(box, body) ==
    IF body.type = CIRCLE
    THEN stretchBox(box, newVec2(body.center.x - body.bounds, body.center.y - body.bounds),
                         newVec2(body.center.x + body.bounds, body.center.y + body.bounds))
    ELSE IF body.type = RECTANGLE THEN vertexLoop(box, body, 0)
    ELSE box

RECURSIVE bodyLoop(_, _, _)
\* getWorldBounds: for (const body of world.bodies), from place n on
bodyLoop(box, bs, n) ==
    IF n > Len(bs) THEN box ELSE bodyLoop(stretchToBody(box, bs[n]), bs, n + 1)

\* getWorldBounds: min and max as they start, from world.bodies[0]
firstBox(body) ==
    [min |-> newVec2(body.center.x - body.bounds, body.center.y - body.bounds),
     max |-> newVec2(body.center.x + body.bounds, body.center.y + body.bounds)]

\* getWorldBounds(world). The guard !world.bodies is false for every array,
\* the empty one too, so that with no bodies world.bodies[0] is undefined and
\* reading its center throws a TypeError: thrown is TRUE then and min and max
\* stand for nothing
getWorldBounds(bs) ==
    IF bs = <<>>
    THEN [thrown |-> TRUE, min |-> newVec2(0, 0), max |-> newVec2(0, 0)]
    ELSE [thrown |-> FALSE,
          min |-> bodyLoop(firstBox(bs[1]), bs, 1).min,
          max |-> bodyLoop(firstBox(bs[1]), bs, 1).max]

(***************************************************************************)
(* Collision detection                                                     *)
(***************************************************************************)
\* Test if two shapes have intersecting bounding circles
boundTest(s1, s2) ==
    lengthVec2(subtractVec2(s2.center, s1.center)) <= s1.bounds + s2.bounds

\* the largest member of a non-empty set of integers
SetMax(S) == CHOOSE m \in S : \A n \in S : n <= m

\* findAxisLeastPenetration: the projection of vertex j of otherRect on -n of face i
FaceProjection(rect, otherRect, i, j) ==
    dotProduct(subtractVec2(otherRect.vertices[j], rect.vertices[i]), scaleVec2(rect.faceNormals[i], -Scale))

\* the inner loop with a projection of 0 counted as support: a fault the
\* miss of rectangles that only touch excludes
SupportVertexTouching(proj) ==
    IF \A j \in Faces : proj[j] < 0 THEN -1
    ELSE SetMax({j \in Faces : proj[j] >= 0 /\ \A m \in Faces : proj[m] <= proj[j]})

\* findAxisLeastPenetration: the inner loop, j = 3 .. 0, over the projections
\* proj of the four vertices, keeps the first vertex of the greatest positive
\* projection; -1 when no projection is positive
SupportVertex(proj) ==
    IF \A j \in Faces : proj[j] <= 0 THEN -1
    ELSE SetMax({j \in Faces : proj[j] > 0 /\ \A m \in Faces : proj[m] <= proj[j]})

\* findAxisLeastPenetration: the outer loop, i = 3 .. 0, over the support
\* vertex sup[i] and its distance dist[i] of each face
leastPenetration(rect, otherRect, collisionInfo, sup, dist) ==
    IF \E f \in Faces : sup[f] = -1
    THEN [hasSupport |-> FALSE, info |-> collisionInfo]
    ELSE LET bestIndex == SetMax({f \in Faces : \A g \in Faces : dist[f] <= dist[g]})
         IN  [hasSupport |-> TRUE,
              info |-> setCollisionInfo(dist[bestIndex], rect.faceNormals[bestIndex],
                           addVec2(otherRect.vertices[sup[bestIndex]],
                                   scaleVec2(rect.faceNormals[bestIndex], dist[bestIndex])))]

\* findAxisLeastPenetration, with the projections proj[i][j] at hand
supportedPenetration(rect, otherRect, collisionInfo, proj) ==
    leastPenetration(rect, otherRect, collisionInfo,
                     [f \in Faces |-> SupportVertex(proj[f])],
                     [f \in Faces |-> SetMax({proj[f][m] : m \in Faces})])

\* Find the axis of least penetration between two rects: hasSupport and the
\* collision info written when it is true
findAxisLeastPenetration(rect, otherRect, collisionInfo) ==
    supportedPenetration(rect, otherRect, collisionInfo,
                         [f \in Faces |-> [m \in Faces |-> FaceProjection(rect, otherRect, f, m)]])

\* testCollision, circle vs circle, with vFrom1to2, rSum and dist at hand
circleContact(c2, collisionInfo, vFrom1to2, rSum, dist) ==
    IF dist <= Sqrt(Mul(rSum, rSum))
    THEN [hit |-> TRUE,
          info |-> setCollisionInfo(rSum - dist, normalize(vFrom1to2),
                       addVec2(c2.center, scaleVec2(normalize(scaleVec2(vFrom1to2, -Scale)), c2.bounds)))]
    ELSE [hit |-> FALSE, info |-> collisionInfo]

\* testCollision, circle vs circle
testCircleCircle(c1, c2, collisionInfo) ==
    circleContact(c2, collisionInfo, subtractVec2(c2.center, c1.center), c1.bounds + c2.bounds,
                  lengthVec2(subtractVec2(c2.center, c1.center)))

\* the choice between the two candidates with a tie going to the first
\* rectangle's: a fault the strict comparison of the depths excludes
chooseShorterOrEqual(collisionInfo, infoR1, infoR2, status1, status2) ==
    IF ~status1.hasSupport
    THEN [hit |-> FALSE, info |-> collisionInfo, R1 |-> infoR1, R2 |-> infoR2]
    ELSE IF ~status2.hasSupport
    THEN [hit |-> FALSE, info |-> collisionInfo, R1 |-> status1.info, R2 |-> infoR2]
    ELSE IF status1.info.depth <= status2.info.depth
    THEN [hit |-> TRUE,
          info |-> setCollisionInfo(status1.info.depth, status1.info.normal,
                       subtractVec2(status1.info.start, scaleVec2(status1.info.normal, status1.info.depth))),
          R1 |-> status1.info, R2 |-> status2.info]
    ELSE [hit |-> TRUE,
          info |-> setCollisionInfo(status2.info.depth, scaleVec2(status2.info.normal, -Scale), status2.info.start),
          R1 |-> status1.info, R2 |-> status2.info]

\* testCollision, rectangle vs rectangle, with the results of the two searches at hand
chooseShorter(collisionInfo, infoR1, infoR2, status1, status2) ==
    IF ~status1.hasSupport
    THEN [hit |-> FALSE, info |-> collisionInfo, R1 |-> infoR1, R2 |-> infoR2]
    ELSE IF ~status2.hasSupport
    THEN [hit |-> FALSE, info |-> collisionInfo, R1 |-> status1.info, R2 |-> infoR2]
    \* if both of rectangles are overlapping, choose the shorter normal as the normal
    ELSE IF status1.info.depth < status2.info.depth
    THEN [hit |-> TRUE,
          info |-> setCollisionInfo(status1.info.depth, status1.info.normal,
                       subtractVec2(status1.info.start, scaleVec2(status1.info.normal, status1.info.depth))),
          R1 |-> status1.info, R2 |-> status2.info]
    ELSE [hit |-> TRUE,
          info |-> setCollisionInfo(status2.info.depth, scaleVec2(status2.info.normal, -Scale), status2.info.start),
          R1 |-> status1.info, R2 |-> status2.info]

\* testCollision, rectangle vs rectangle: also the two scratch records
testRectRect(c1, c2, collisionInfo, infoR1, infoR2) ==
    chooseShorter(collisionInfo, infoR1, infoR2,
                  findAxisLeastPenetration(c1, c2, infoR1), findAxisLeastPenetration(c2, c1, infoR2))

\* testCollision, rectangle vs circle: the contact in a corner region, v1 from
\* the corner to the center of the circle
cornerContact(c2, collisionInfo, v1, dis) ==
    IF dis > c2.bounds THEN [hit |-> FALSE, info |-> collisionInfo]
    ELSE [hit |-> TRUE,
          info |-> setCollisionInfo(c2.bounds - dis, normalize(v1),
                       addVec2(c2.center, scaleVec2(normalize(v1), -c2.bounds)))]

\* testCollision, rectangle vs circle: the contact on the face nearestEdge
faceContact(c1, c2, nearestEdge, bestDistance) ==
    [hit |-> TRUE,
     info |-> setCollisionInfo(c2.bounds - bestDistance, c1.faceNormals[nearestEdge],
                  subtractVec2(c2.center, scaleVec2(c1.faceNormals[nearestEdge], c2.bounds)))]

\* testCollision, rectangle vs circle: the center of circle is outside of the
\* rectangle, v2 from the left vertex of the face nearestEdge to its right vertex
outsideContact(c1, c2, collisionInfo, nearestEdge, bestDistance, v2) ==
    IF dotProduct(subtractVec2(c2.center, c1.vertices[nearestEdge]), v2) < 0
    THEN cornerContact(c2, collisionInfo, subtractVec2(c2.center, c1.vertices[nearestEdge]),
                       lengthVec2(subtractVec2(c2.center, c1.vertices[nearestEdge])))
    ELSE IF dotProduct(subtractVec2(c2.center, c1.vertices[(nearestEdge + 1) % 4]), scaleVec2(v2, -Scale)) < 0
    THEN cornerContact(c2, collisionInfo, subtractVec2(c2.center, c1.vertices[(nearestEdge + 1) % 4]),
                       lengthVec2(subtractVec2(c2.center, c1.vertices[(nearestEdge + 1) % 4])))
    ELSE IF bestDistance < c2.bounds THEN faceContact(c1, c2, nearestEdge, bestDistance)
    ELSE [hit |-> FALSE, info |-> collisionInfo]

\* testCollision, rectangle vs circle, with the projection of each face at
\* hand: the loop runs i = 3 .. 0 and breaks at the first face the center is
\* outside of
nearestContact(c1, c2, collisionInfo, projection) ==
    IF \A f \in Faces : projection[f] <= 0
    THEN faceContact(c1, c2, SetMax({f \in Faces : \A g \in Faces : projection[g] <= projection[f]}),
                     SetMax({projection[f] : f \in Faces}))
    ELSE outsideContact(c1, c2, collisionInfo, SetMax({f \in Faces : projection[f] > 0}),
                        projection[SetMax({f \in Faces : projection[f] > 0})],
                        subtractVec2(c1.vertices[(SetMax({f \in Faces : projection[f] > 0}) + 1) % 4],
                                     c1.vertices[SetMax({f \in Faces : projection[f] > 0})]))

\* testCollision, rectangle c1 vs circle c2
testRectCircle(c1, c2, collisionInfo) ==
    nearestContact(c1, c2, collisionInfo,
                   [f \in Faces |-> dotProduct(subtractVec2(c2.center, c1.vertices[f]), c1.faceNormals[f])])

\* a result of testCollision that leaves the two scratch records alone
keepScratch(r, infoR1, infoR2) == [hit |-> r.hit, info |-> r.info, R1 |-> infoR1, R2 |-> infoR2]

\* testCollision without its first test, static pairs sent on to the tests
\* by kind: a fault the rule that static bodies do not collide excludes
testCollisionOfAny(c1, c2, collisionInfo, infoR1, infoR2) ==
    IF c1.type = CIRCLE /\ c2.type = CIRCLE
    THEN keepScratch(testCircleCircle(c1, c2, collisionInfo), infoR1, infoR2)
    ELSE IF c1.type = RECTANGLE /\ c2.type = RECTANGLE
    THEN testRectRect(c1, c2, collisionInfo, infoR1, infoR2)
    ELSE IF c1.type = CIRCLE /\ c2.type = RECTANGLE
    THEN keepScratch(testRectCircle(c2, c1, collisionInfo), infoR1, infoR2)
    ELSE keepScratch(testRectCircle(c1, c2, collisionInfo), infoR1, infoR2)

\* Test collision between two shapes
testCollision(c1, c2, collisionInfo, infoR1, infoR2) ==
    IF c1.mass = 0 /\ c2.mass = 0
    THEN [hit |-> FALSE, info |-> collisionInfo, R1 |-> infoR1, R2 |-> infoR2]
    ELSE IF c1.type = CIRCLE /\ c2.type = CIRCLE
    THEN keepScratch(testCircleCircle(c1, c2, collisionInfo), infoR1, infoR2)
    ELSE IF c1.type = RECTANGLE /\ c2.type = RECTANGLE
    THEN testRectRect(c1, c2, collisionInfo, infoR1, infoR2)
    ELSE IF c1.type = CIRCLE /\ c2.type = RECTANGLE
    THEN keepScratch(testRectCircle(c2, c1, collisionInfo), infoR1, infoR2)
    ELSE keepScratch(testRectCircle(c1, c2, collisionInfo), infoR1, infoR2)

(***************************************************************************)
(* Collision resolution                                                    *)
(***************************************************************************)
\* .8 = poscorrectionrate = percentage of separation to project objects
PosCorrectionRate == (8 * Scale) \div 10

\* newV = V + v cross R
pointVelocity(s, r) ==
    addVec2(s.velocity, newVec2(Mul(Mul(-Scale, s.angularVelocity), r.y), Mul(s.angularVelocity, r.x)))

\* the impulse scalar of resolveCollision along the direction d, for the
\* numerator num
impulseScalar(s1, s2, r1, r2, d, num) ==
    Div(num, s1.mass + s2.mass
             + Mul(Mul(crossProduct(r1, d), crossProduct(r1, d)), s1.inertia)
             + Mul(Mul(crossProduct(r2, d), crossProduct(r2, d)), s2.inertia))

\* resolveCollision: s1 after the impulse jd along d has been taken from it
takeImpulse(s1, r1, d, jd) ==
    [s1 EXCEPT !.velocity = subtractVec2(s1.velocity, scaleVec2(scaleVec2(d, jd), s1.mass)),
               !.angularVelocity = s1.angularVelocity - Mul(Mul(crossProduct(r1, d), jd), s1.inertia)]

\* resolveCollision: s2 after the impulse jd along d has been given to it
giveImpulse(s2, r2, d, jd) ==
    [s2 EXCEPT !.velocity = addVec2(s2.velocity, scaleVec2(scaleVec2(d, jd), s2.mass)),
               !.angularVelocity = s2.angularVelocity + Mul(Mul(crossProduct(r2, d), jd), s2.inertia)]

\* the end of resolveCollision with no damping: a fault the damping of every
\* resolved contact excludes
dampBodyUndamped(wdamp, wangularDamp, s) ==
    [s EXCEPT !.velocity = IF s.pinned THEN newVec2(0, 0) ELSE s.velocity]

\* the end of resolveCollision with pinned bodies damped like the others: a
\* fault the zero velocity of pinned bodies excludes
dampBodyPinnedToo(wdamp, wangularDamp, s) ==
    [s EXCEPT !.velocity = newVec2(Mul(s.velocity.x, wdamp), Mul(s.velocity.y, wdamp)),
              !.angularVelocity = Mul(s.angularVelocity, wangularDamp)]

\* resolveCollision: the damping and the pinned override
dampBody(wdamp, wangularDamp, s) ==
    [s EXCEPT !.velocity = IF s.pinned THEN newVec2(0, 0)
                           ELSE newVec2(Mul(s.velocity.x, wdamp), Mul(s.velocity.y, wdamp)),
              !.angularVelocity = Mul(s.angularVelocity, wangularDamp)]

\* resolveCollision: friction should less than force in normal direction
clampFriction(jT, jN) == IF jT > jN THEN jN ELSE jT

\* resolveCollision from the tangential impulse on: s1, s2 carry the normal
\* impulse jN already
applyFriction(wdamp, wangularDamp, s1, s2, r1, r2, tangent, jT) ==
    [s1 |-> dampBody(wdamp, wangularDamp, takeImpulse(s1, r1, tangent, jT)),
     s2 |-> dampBody(wdamp, wangularDamp, giveImpulse(s2, r2, tangent, jT)),
     result |-> TRUE]

\* resolveCollision: the tangent, against the part of the relative velocity
\* that lies across the normal
tangentOf(relativeVelocity, n) ==
    scaleVec2(normalize(subtractVec2(relativeVelocity, scaleVec2(n, dotProduct(relativeVelocity, n)))), -Scale)

\* resolveCollision: the impulse scalar jN along the normal
normalImpulse(s1, s2, r1, r2, n, rVelocityInNormal) ==
    impulseScalar(s1, s2, r1, r2, n, Mul(-(Scale + Min(s1.restitution, s2.restitution)), rVelocityInNormal))

\* resolveCollision: the impulse scalar jT along the tangent as first computed
frictionImpulse(s1, s2, r1, r2, relativeVelocity, tangent) ==
    impulseScalar(s1, s2, r1, r2, tangent,
        Mul(Mul(-(Scale + Min(s1.restitution, s2.restitution)), dotProduct(relativeVelocity, tangent)),
            Min(s1.friction, s2.friction)))

\* resolveCollision from the normal impulse jN on
applyNormal(wdamp, wangularDamp, s1, s2, r1, r2, n, relativeVelocity, tangent, jN) ==
    applyFriction(wdamp, wangularDamp, takeImpulse(s1, r1, n, jN), giveImpulse(s2, r2, n, jN), r1, r2, tangent,
        clampFriction(frictionImpulse(s1, s2, r1, r2, relativeVelocity, tangent), jN))

\* resolveCollision with the damping applied before the test for bodies
\* moving apart: a fault the untouched velocities of an aborted contact exclude
applyImpulsesDampFirst(wdamp, wangularDamp, s1, s2, r1, r2, n, relativeVelocity, rVelocityInNormal) ==
    IF rVelocityInNormal > 0
    THEN [s1 |-> dampBody(wdamp, wangularDamp, s1), s2 |-> dampBody(wdamp, wangularDamp, s2), result |-> FALSE]
    ELSE applyNormal(wdamp, wangularDamp, s1, s2, r1, r2, n, relativeVelocity,
             scaleVec2(normalize(subtractVec2(relativeVelocity, scaleVec2(n, dotProduct(relativeVelocity, n)))), -Scale),
             impulseScalar(s1, s2, r1, r2, n,
                 Mul(-(Scale + Min(s1.restitution, s2.restitution)), rVelocityInNormal)))

\* resolveCollision with the larger of the two restitutions in the normal
\* impulse, in place of the smaller: a fault the rest of a body of restitution
\* 0 on bouncy ground excludes
applyImpulsesMaxRestitution(wdamp, wangularDamp, s1, s2, r1, r2, n, relativeVelocity, rVelocityInNormal) ==
    IF rVelocityInNormal > 0 THEN [s1 |-> s1, s2 |-> s2, result |-> FALSE]
    ELSE applyNormal(wdamp, wangularDamp, s1, s2, r1, r2, n, relativeVelocity,
             scaleVec2(normalize(subtractVec2(relativeVelocity, scaleVec2(n, dotProduct(relativeVelocity, n)))), -Scale),
             impulseScalar(s1, s2, r1, r2, n,
                 Mul(-(Scale + Max(s1.restitution, s2.restitution)), rVelocityInNormal)))

\* resolveCollision from the relative velocity on
applyImpulses(wdamp, wangularDamp, s1, s2, r1, r2, n, relativeVelocity, rVelocityInNormal) ==
    \* if objects moving apart ignore
    IF rVelocityInNormal > 0 THEN [s1 |-> s1, s2 |-> s2, result |-> FALSE]
    ELSE applyNormal(wdamp, wangularDamp, s1, s2, r1, r2, n, relativeVelocity,
             tangentOf(relativeVelocity, n), normalImpulse(s1, s2, r1, r2, n, rVelocityInNormal))

\* resolveCollision from the arms r1, r2 of the contact point on
resolveAt(wdamp, wangularDamp, s1, s2, r1, r2, n) ==
    applyImpulses(wdamp, wangularDamp, s1, s2, r1, r2, n,
        subtractVec2(pointVelocity(s2, r2), pointVelocity(s1, r1)),
        dotProduct(subtractVec2(pointVelocity(s2, r2), pointVelocity(s1, r1)), n))

\* resolveCollision from the contact point p on, the positions corrected
resolveMoved(wdamp, wangularDamp, s1, s2, n, p) ==
    resolveAt(wdamp, wangularDamp, s1, s2, subtractVec2(p, s1.center), subtractVec2(p, s2.center), n)

\* resolveCollision: the contact point, start scaled with s2 and end with s1
contactPoint(s1, s2, collisionInfo) ==
    addVec2(scaleVec2(collisionInfo.start, Div(s2.mass, s1.mass + s2.mass)),
            scaleVec2(collisionInfo.end, Div(s1.mass, s1.mass + s2.mass)))

\* correct positions with the two bodies' shares exchanged, each body moved by
\* the other's inverse mass: a fault the immobility of static bodies excludes
correctPositionsExchanged(wdamp, wangularDamp, s1, s2, collisionInfo, correctionAmount) ==
    IF lengthVec2(correctionAmount) = 0 THEN [s1 |-> s1, s2 |-> s2, result |-> FALSE]
    ELSE resolveMoved(wdamp, wangularDamp,
             moveShape(s1, scaleVec2(correctionAmount, -s2.mass)),
             moveShape(s2, scaleVec2(correctionAmount, s1.mass)),
             collisionInfo.normal, contactPoint(s1, s2, collisionInfo))

\* resolveCollision: correct positions
correctPositions(wdamp, wangularDamp, s1, s2, collisionInfo, correctionAmount) ==
    IF lengthVec2(correctionAmount) = 0 THEN [s1 |-> s1, s2 |-> s2, result |-> FALSE]
    ELSE resolveMoved(wdamp, wangularDamp,
             moveShape(s1, scaleVec2(correctionAmount, -s1.mass)),
             moveShape(s2, scaleVec2(correctionAmount, s2.mass)),
             collisionInfo.normal, contactPoint(s1, s2, collisionInfo))

\* resolveCollision: the two bodies as it leaves them, and what it returns
resolveCollision(wdamp, wangularDamp, s1, s2, collisionInfo) ==
    IF s1.mass = 0 /\ s2.mass = 0 THEN [s1 |-> s1, s2 |-> s2, result |-> FALSE]
    ELSE correctPositions(wdamp, wangularDamp, s1, s2, collisionInfo,
             scaleVec2(collisionInfo.normal,
                       Mul(Div(collisionInfo.depth, s1.mass + s2.mass), PosCorrectionRate)))

(***************************************************************************)
(* The world                                                               *)
(***************************************************************************)
VARIABLES
    bodies,           \* world.bodies
    joints,           \* world.joints
    gravity,          \* world.gravity
    damp,             \* world.damp
    angularDamp,      \* world.angularDamp
    nextId,           \* world.nextId
    collisionInfo,    \* world.collisionInfo
    collisionInfoR1,  \* world.collisionInfoR1
    collisionInfoR2,  \* world.collisionInfoR2
    pc,               \* where worldStep stands: "idle" outside it
    fps,              \* worldStep's argument
    k,                \* worldStep's sweep counter, for (let k = 9; k--;)
    i,                \* worldStep's pair loop: the pair (i, j) is tested next,
    j,                \*   i = -1 when the sweep has no pair left
    collision,        \* worldStep's flag of the running sweep
    stepStart,        \* history: world.bodies when the step began
    sweepStart,       \* history: world.bodies when the running sweep began
    sweeps,           \* history: sweeps begun in this step
    resolved,         \* history: resolveCollision calls of the running sweep that returned true
    prevResolved,     \* history: the same of the sweep before
    lastCall,         \* history: the latest resolveCollision call
    contacts,         \* history: places of the bodies testCollision found in contact in this step
    steps,            \* history: worldStep calls so far
    ops,              \* history: calls of the other operations so far
    created,          \* history: each body as its factory returned it
    written,          \* history: places in world.bodies a caller has written to since
    lastOp,           \* history: the latest call that set the world up, the place it wrote to, its mass argument
    answer            \* what the latest getWorldBounds call returned, and the bodies it was asked about

world == <<bodies, joints, gravity, damp, angularDamp, nextId, collisionInfo, collisionInfoR1, collisionInfoR2>>
loop == <<pc, fps, k, i, j, collision>>
history == <<stepStart, sweepStart, sweeps, resolved, prevResolved, lastCall, contacts>>
vars == <<world, loop, history, steps, ops, created, written, lastOp, answer>>

NoOp == [name |-> "", place |-> 0, arg |-> 0]

\* no getWorldBounds call yet
NoAnswer == [called |-> FALSE, thrown |-> FALSE, of |-> <<>>,
             min |-> [x |-> 0, y |-> 0], max |-> [x |-> 0, y |-> 0]]

NoCall == [called |-> FALSE, i |-> 0, j |-> 0, tested |-> EmptyCollision, info |-> EmptyCollision,
           centerI |-> newVec2(0, 0), centerJ |-> newVec2(0, 0), s1 |-> [id |-> 0], s2 |-> [id |-> 0],
           result |-> FALSE]

\* world.bodies[n] of the source, n counted from 0
BodyAt(bs, n) == bs[n + 1]

\* the integration with the body moved by its velocity per second, the
\* division by fps left out: a fault the advance by v / fps excludes
integrateBodyPerSecond(body, f) ==
    IF body.mass # 0
    THEN LET velocity == addVec2(body.velocity, scaleByFrame(body.acceleration, f))
             moved == moveShape([body EXCEPT !.velocity = velocity], velocity)
             angularVelocity == body.angularVelocity + IDiv(body.angularAcceleration, f)
         IN  rotateShape([moved EXCEPT !.angularVelocity = angularVelocity], IDiv(angularVelocity, f))
    ELSE body

\* the integration with the body moved by the velocity it had before the
\* acceleration was added: a fault the advance by the updated velocity excludes
integrateBodyOldVelocity(body, f) ==
    IF body.mass # 0
    THEN LET velocity == addVec2(body.velocity, scaleByFrame(body.acceleration, f))
             moved == moveShape([body EXCEPT !.velocity = velocity], scaleByFrame(body.velocity, f))
             angularVelocity == body.angularVelocity + IDiv(body.angularAcceleration, f)
         IN  rotateShape([moved EXCEPT !.angularVelocity = angularVelocity], IDiv(angularVelocity, f))
    ELSE body

\* worldStep, integration of one body: Update position/rotation
integrateBody(body, f) ==
    IF body.mass # 0
    THEN LET velocity == addVec2(body.velocity, scaleByFrame(body.acceleration, f))
             moved == moveShape([body EXCEPT !.velocity = velocity], scaleByFrame(velocity, f))
             angularVelocity == body.angularVelocity + IDiv(body.angularAcceleration, f)
         IN  rotateShape([moved EXCEPT !.angularVelocity = angularVelocity], IDiv(angularVelocity, f))
    ELSE body

\* world.bodies.find(b => b.id === otherId): its place in the list, 0 when absent
findBody(bs, otherId) ==
    LET found == {n \in DOMAIN bs : bs[n].id = otherId}
    IN  IF found = {} THEN 0 ELSE CHOOSE n \in found : \A m \in found : n <= m

\* worldStep, joint pass: the body moved by vec, its velocity nudged
nudgeBody(body, vec, f) ==
    [moveShape(body, vec) EXCEPT !.velocity = addVec2(body.velocity, newVec2(vec.x * f, vec.y * f))]

\* the scale of the correction with the elasticity itself as the coefficient
\* of a stretched joint, in place of 1 - elasticity: a fault the convergence
\* of a joint excludes
jointFactorElastic(joint, other, distance, diff) ==
    Mul(Mul(Div(diff, distance), IF diff > 0 THEN joint.elasticity ELSE joint.rigidity),
        IF other.mass = 0 THEN Scale ELSE Scale \div 2)

\* the scale of the correction with the whole of it given to the body, the
\* other body movable or not: a fault the split of the correction excludes
jointFactorWhole(joint, other, distance, diff) ==
    Mul(Mul(Div(diff, distance), IF diff > 0 THEN Scale - joint.elasticity ELSE joint.rigidity), Scale)

\* the scale of the correction with the share 0.5 whatever the other body:
\* a fault the full correction toward an immobile body excludes
jointFactorHalved(joint, other, distance, diff) ==
    Mul(Mul(Div(diff, distance), IF diff > 0 THEN Scale - joint.elasticity ELSE joint.rigidity),
        Scale \div 2)

\* worldStep, joint pass: the scale (1 / distance) * diff * coefficient * share
\* of the correction
jointFactor(joint, other, distance, diff) ==
    Mul(Mul(Div(diff, distance), IF diff > 0 THEN Scale - joint.elasticity ELSE joint.rigidity),
        IF other.mass = 0 THEN Scale ELSE Scale \div 2)

\* worldStep, joint pass: the body at place b corrected toward the body other.
\* With the two centers on each other the scale is 1 / 0 times a negative
\* diff and the correction 0 * -Infinity = NaN: the result is then <<>>, no
\* list of bodies with numbers for coordinates
correctJoint(bs, b, joint, other, vec, distance, f) ==
    IF distance - joint.distance = 0 THEN bs
    ELSE IF distance = 0 THEN <<>>
    ELSE [bs EXCEPT ![b] = nudgeBody(bs[b], scaleVec2(vec, jointFactor(joint, other, distance, distance - joint.distance)), f)]

\* worldStep, joint pass: the joint applied to the body at place b, the other
\* body found at place o
pullJoint(bs, b, joint, o, f) ==
    IF o = 0 THEN bs
    ELSE correctJoint(bs, b, joint, bs[o], subtractVec2(bs[o].center, bs[b].center),
                      lengthVec2(subtractVec2(bs[o].center, bs[b].center)), f)

\* worldStep, joint pass: what one joint does to the body at place b
applyJoint(bs, b, joint, f) ==
    pullJoint(bs, b, joint, findBody(bs, IF joint.bodyA = bs[b].id THEN joint.bodyB ELSE joint.bodyA), f)

RECURSIVE jointLoop(_, _, _, _)
\* worldStep, joint pass: bodies from place b on, joints from place q on
jointLoop(bs, b, q, f) ==
    IF b > Len(bs) THEN bs
    ELSE IF bs[b].mass = 0 \/ q > Len(joints) THEN jointLoop(bs, b + 1, 1, f)
    ELSE IF joints[q].bodyA = bs[b].id \/ joints[q].bodyB = bs[b].id
    THEN jointLoop(applyJoint(bs, b, joints[q], f), b, q + 1, f)
    ELSE jointLoop(bs, b, q + 1, f)

\* the rest bookkeeping with the angle compared like the coordinates, a turn
\* of exactly 0.1 not counted: a fault the reset on a turn of 0.1 excludes
restBodyStrictAngle(body, f) ==
    IF body.mass > 0
    THEN LET movedX == Abs(body.center.x - body.averageCenter.x) > Scale
             movedY == Abs(body.center.y - body.averageCenter.y) > Scale
             turned == Abs(body.angle - body.averageAngle) > Scale \div 10
         IN  [body EXCEPT
                 !.restingTime = IF movedX \/ movedY \/ turned THEN 0 ELSE body.restingTime + IDiv(Scale, f),
                 !.averageCenter = newVec2(IF movedX THEN body.center.x ELSE body.averageCenter.x,
                                           IF movedY THEN body.center.y ELSE body.averageCenter.y),
                 !.averageAngle = IF turned THEN body.angle ELSE body.averageAngle]
    ELSE body

\* the rest bookkeeping that makes a body immobile once it has rested for a
\* frame: a fault the constancy of the inverse mass over a step excludes
restBodySleeping(body, f) ==
    IF body.mass > 0
    THEN LET movedX == Abs(body.center.x - body.averageCenter.x) > Scale
             movedY == Abs(body.center.y - body.averageCenter.y) > Scale
             turned == Abs(body.angle - body.averageAngle) >= Scale \div 10
         IN  [body EXCEPT
                 !.restingTime = IF movedX \/ movedY \/ turned THEN 0 ELSE body.restingTime + IDiv(Scale, f),
                 !.mass = IF movedX \/ movedY \/ turned THEN body.mass ELSE 0,
                 !.averageCenter = newVec2(IF movedX THEN body.center.x ELSE body.averageCenter.x,
                                           IF movedY THEN body.center.y ELSE body.averageCenter.y),
                 !.averageAngle = IF turned THEN body.angle ELSE body.averageAngle]
    ELSE body

\* worldStep, rest bookkeeping of one body
restBody(body, f) ==
    IF body.mass > 0
    THEN LET movedX == Abs(body.center.x - body.averageCenter.x) > Scale
             movedY == Abs(body.center.y - body.averageCenter.y) > Scale
             turned == Abs(body.angle - body.averageAngle) >= Scale \div 10
         IN  [body EXCEPT
                 !.restingTime = IF movedX \/ movedY \/ turned THEN 0 ELSE body.restingTime + IDiv(Scale, f),
                 !.averageCenter = newVec2(IF movedX THEN body.center.x ELSE body.averageCenter.x,
                                           IF movedY THEN body.center.y ELSE body.averageCenter.y),
                 !.averageAngle = IF turned THEN body.angle ELSE body.averageAngle]
    ELSE body

\* the pair the loops for (i = n; i--;) for (j = n; j-- > i;) reach after (a, b),
\* pairs with i = j passed over; <<-1, -1>> when the loops are through
nextPair(a, b, n) ==
    IF b - 1 > a THEN <<a, b - 1>>
    ELSE IF a - 1 >= 0 THEN <<a - 1, n - 1>>
    ELSE <<-1, -1>>

\* the first pair of a sweep over n bodies
firstPair(n) == IF n >= 2 THEN <<n - 2, n - 1>> ELSE <<-1, -1>>

(***************************************************************************)
(* Bounds and inputs of the model                                          *)
(***************************************************************************)
MaxBodies == 2
MaxSteps == 2
MaxOps == 2

\* n units as a fixed-point number
U(n) == n * Scale

Fractions(a, b) == (a * Scale) \div b

\* the frame rates worldStep is called with
FpsSet == {10, 60}

\* arguments of createCircle: center, radius, mass, friction, restitution
CircleArgs ==
    { [center |-> newVec2(Fractions(1, 2), Fractions(1, 5)), radius |-> Fractions(5, 2), mass |-> U(1),
       friction |-> Fractions(1, 2), restitution |-> Fractions(1, 2)],
      [center |-> newVec2(U(3), U(0)), radius |-> U(2), mass |-> U(2),
       friction |-> 0, restitution |-> 0],
      [center |-> newVec2(U(0), U(0)), radius |-> U(2), mass |-> 0,
       friction |-> U(1), restitution |-> U(1)] }

\* arguments of createRectangle: center, width, height, mass, friction, restitution
RectangleArgs ==
    { [center |-> newVec2(U(0), U(4)), width |-> U(12), height |-> U(2), mass |-> 0,
       friction |-> U(1), restitution |-> Fractions(1, 2)],
      [center |-> newVec2(U(1), U(-1)), width |-> U(4), height |-> Fractions(9, 2), mass |-> U(1),
       friction |-> Fractions(1, 2), restitution |-> 0] }

\* arguments of the other operations
GravityArgs == {newVec2(0, 0)}
MoveArgs == {newVec2(U(1), Fractions(-1, 2))}
RotateArgs == {Fractions(1, 2)}
PinnedMassArgs == {0, U(2)}
VelocityArgs == {newVec2(U(2), U(-1))}
JointArgs == {[rigidity |-> U(1), elasticity |-> 0]}

(***************************************************************************)
(* The operations                                                          *)
(***************************************************************************)
\* physics.createWorld()
Init ==
    /\ bodies = <<>>
    /\ joints = <<>>
    /\ gravity = newVec2(0, U(100))
    /\ damp = Fractions(98, 100)
    /\ angularDamp = Fractions(98, 100)
    /\ nextId = 1
    /\ collisionInfo = EmptyCollision
    /\ collisionInfoR1 = EmptyCollision
    /\ collisionInfoR2 = EmptyCollision
    /\ pc = "idle"
    /\ fps = 0
    /\ k = 0
    /\ i = -1
    /\ j = -1
    /\ collision = FALSE
    /\ stepStart = <<>>
    /\ sweepStart = <<>>
    /\ sweeps = 0
    /\ resolved = 0
    /\ prevResolved = 0
    /\ lastCall = NoCall
    /\ contacts = {}
    /\ steps = 0
    /\ ops = 0
    /\ created = <<>>
    /\ written = {}
    /\ lastOp = NoOp
    /\ answer = NoAnswer

\* what an operation called between two steps leaves alone
BetweenSteps ==
    /\ pc = "idle"
    /\ UNCHANGED <<loop, history, steps>>

\* what a caller's call that sets the world up leaves alone: such calls are
\* made before the first worldStep, at most MaxOps of them
SettingUp ==
    /\ BetweenSteps
    /\ steps = 0
    /\ ops < MaxOps
    /\ UNCHANGED answer

\* createCircle with the id counter of the world left as it was: a fault the
\* distinct ids of the bodies exclude
CreateCircleSameId ==
    /\ BetweenSteps
    /\ Len(bodies) < MaxBodies
    /\ \E a \in CircleArgs :
          bodies' = Append(bodies, createCircle(nextId, gravity, a.center, a.radius, a.mass, a.friction, a.restitution))
    /\ created' = Append(created, bodies'[Len(bodies')])
    /\ UNCHANGED <<joints, gravity, damp, angularDamp, nextId, collisionInfo, collisionInfoR1, collisionInfoR2, ops, written, lastOp, answer>>

\* physics.createCircle(world, center, radius, mass, friction, restitution)
CreateCircle ==
    /\ BetweenSteps
    /\ Len(bodies) < MaxBodies
    /\ \E a \in CircleArgs :
          bodies' = Append(bodies, createCircle(nextId, gravity, a.center, a.radius, a.mass, a.friction, a.restitution))
    /\ created' = Append(created, bodies'[Len(bodies')])
    /\ nextId' = nextId + 1
    /\ UNCHANGED <<joints, gravity, damp, angularDamp, collisionInfo, collisionInfoR1, collisionInfoR2, ops, written, lastOp, answer>>

\* physics.createRectangle(world, center, width, height, mass, friction, restitution)
CreateRectangle ==
    /\ BetweenSteps
    /\ Len(bodies) < MaxBodies
    /\ \E a \in RectangleArgs :
          bodies' = Append(bodies, createRectangle(nextId, gravity, a.center, a.width, a.height, a.mass, a.friction, a.restitution))
    /\ created' = Append(created, bodies'[Len(bodies')])
    /\ nextId' = nextId + 1
    /\ UNCHANGED <<joints, gravity, damp, angularDamp, collisionInfo, collisionInfoR1, collisionInfoR2, ops, written, lastOp, answer>>

\* physics.createJoint(world, bodyA, bodyB, rigidity, elasticity), the two
\* bodies apart from each other
CreateJoint ==
    /\ SettingUp
    /\ \E a \in DOMAIN bodies, b \in DOMAIN bodies, c \in JointArgs :
          /\ bodies[a].center # bodies[b].center
          /\ joints' = Append(joints, createJoint(bodies[a], bodies[b], c.rigidity, c.elasticity))
          /\ lastOp' = [name |-> "createJoint", place |-> a, arg |-> 0]
    /\ ops' = ops + 1
    /\ UNCHANGED <<bodies, gravity, damp, angularDamp, nextId, collisionInfo, collisionInfoR1, collisionInfoR2, created, written>>

\* physics.allowPinnedRotation(body, mass)
AllowPinnedRotation ==
    /\ SettingUp
    /\ \E b \in DOMAIN bodies, m \in PinnedMassArgs :
          /\ bodies' = [bodies EXCEPT ![b] = allowPinnedRotation(bodies[b], m)]
          /\ lastOp' = [name |-> "allowPinnedRotation", place |-> b, arg |-> m]
          /\ written' = written \cup {b}
    /\ ops' = ops + 1
    /\ UNCHANGED <<joints, gravity, damp, angularDamp, nextId, collisionInfo, collisionInfoR1, collisionInfoR2, created>>

\* physics.moveShape(shape, v)
MoveShape ==
    /\ SettingUp
    /\ \E b \in DOMAIN bodies, v \in MoveArgs :
          /\ bodies' = [bodies EXCEPT ![b] = moveShape(bodies[b], v)]
          /\ lastOp' = [name |-> "moveShape", place |-> b, arg |-> 0]
          /\ written' = written \cup {b}
    /\ ops' = ops + 1
    /\ UNCHANGED <<joints, gravity, damp, angularDamp, nextId, collisionInfo, collisionInfoR1, collisionInfoR2, created>>

\* physics.rotateShape(shape, angle)
RotateShape ==
    /\ SettingUp
    /\ \E b \in DOMAIN bodies, a \in RotateArgs :
          /\ bodies' = [bodies EXCEPT ![b] = rotateShape(bodies[b], a)]
          /\ lastOp' = [name |-> "rotateShape", place |-> b, arg |-> 0]
          /\ written' = written \cup {b}
    /\ ops' = ops + 1
    /\ UNCHANGED <<joints, gravity, damp, angularDamp, nextId, collisionInfo, collisionInfoR1, collisionInfoR2, created>>

\* a caller's write of world.gravity
SetGravity ==
    /\ SettingUp
    /\ \E g \in GravityArgs : gravity' = g
    /\ lastOp' = [name |-> "gravity", place |-> 0, arg |-> 0]
    /\ ops' = ops + 1
    /\ UNCHANGED <<bodies, joints, damp, angularDamp, nextId, collisionInfo, collisionInfoR1, collisionInfoR2, created, written>>

\* a caller's write of body.velocity
SetVelocity ==
    /\ SettingUp
    /\ \E b \in DOMAIN bodies, v \in VelocityArgs :
          /\ bodies' = [bodies EXCEPT ![b].velocity = v]
          /\ lastOp' = [name |-> "velocity", place |-> b, arg |-> 0]
          /\ written' = written \cup {b}
    /\ ops' = ops + 1
    /\ UNCHANGED <<joints, gravity, damp, angularDamp, nextId, collisionInfo, collisionInfoR1, collisionInfoR2, created>>

\* physics.worldStep(fps, world), entry: the integration loop
Integrate(f) ==
    /\ pc = "idle"
    /\ pc' = "joints"
    /\ fps' = f
    /\ bodies' = [b \in DOMAIN bodies |-> integrateBody(bodies[b], f)]
    /\ stepStart' = bodies
    /\ sweepStart' = <<>>
    /\ sweeps' = 0
    /\ resolved' = 0
    /\ prevResolved' = 0
    /\ lastCall' = NoCall
    /\ contacts' = {}
    /\ steps' = steps + 1
    /\ UNCHANGED <<joints, gravity, damp, angularDamp, nextId, collisionInfo, collisionInfoR1, collisionInfoR2, k, i, j, collision, ops, created, written, lastOp, answer>>

\* worldStep: the joint pass, then entry to the first sweep. Where the pass
\* writes NaN into a body the world is followed no further (pc = "nan")
JointPass ==
    /\ pc = "joints"
    /\ \E moved \in {jointLoop(bodies, 1, 1, fps)} :
          IF moved = <<>> /\ bodies # <<>>
          THEN /\ pc' = "nan"
               /\ UNCHANGED <<bodies, k, collision, i, j, sweepStart, sweeps, resolved, prevResolved>>
          ELSE /\ pc' = "sweep"
               /\ bodies' = moved
               /\ k' = 8
               /\ collision' = FALSE
               /\ i' = firstPair(Len(bodies))[1]
               /\ j' = firstPair(Len(bodies))[2]
               /\ sweepStart' = moved
               /\ sweeps' = 1
               /\ resolved' = 0
               /\ prevResolved' = 0
    /\ UNCHANGED <<joints, gravity, damp, angularDamp, nextId, collisionInfo, collisionInfoR1, collisionInfoR2, fps, stepStart, lastCall, contacts, steps, ops, created, written, lastOp, answer>>

\* the collision info handed on as testCollision wrote it: a fault the
\* orientation of the normal excludes
orientNever(info, bi, bj) == info

\* the normal turned around with start and end left in place: a fault the
\* agreement of end with start + depth * normal excludes
orientKeepEnds(info, bi, bj) ==
    IF dotProduct(info.normal, subtractVec2(bj.center, bi.center)) < 0
    THEN [info EXCEPT !.normal = scaleVec2(info.normal, -Scale)]
    ELSE info

\* the normal after worldStep has made sure it is from object[i] to object[j]
orient(info, bi, bj) ==
    IF dotProduct(info.normal, subtractVec2(bj.center, bi.center)) < 0
    THEN [depth |-> info.depth, normal |-> scaleVec2(info.normal, -Scale), start |-> info.end, end |-> info.start]
    ELSE info

\* worldStep: the body of the pair loops for the pair (i, j)
CollidePair ==
    /\ pc = "sweep"
    /\ i >= 0
    /\ IF /\ BodyAt(bodies, i).mass # 0 \/ BodyAt(bodies, j).mass # 0
          /\ boundTest(BodyAt(bodies, i), BodyAt(bodies, j))
       THEN \E test \in {testCollision(BodyAt(bodies, i), BodyAt(bodies, j), collisionInfo, collisionInfoR1, collisionInfoR2)} :
               /\ collisionInfoR1' = test.R1
               /\ collisionInfoR2' = test.R2
               /\ contacts' = IF test.hit THEN contacts \cup {i + 1, j + 1} ELSE contacts
               /\ IF test.hit
                  THEN \E info \in {orient(test.info, BodyAt(bodies, i), BodyAt(bodies, j))} :
                       \E res \in {resolveCollision(damp, angularDamp, BodyAt(bodies, i), BodyAt(bodies, j), info)} :
                          /\ collisionInfo' = info
                          /\ bodies' = [bodies EXCEPT ![i + 1] = res.s1, ![j + 1] = res.s2]
                          /\ collision' = (collision \/ res.result)
                          /\ resolved' = resolved + (IF res.result THEN 1 ELSE 0)
                          /\ lastCall' = [called |-> TRUE, i |-> i, j |-> j, tested |-> test.info, info |-> info,
                                          centerI |-> BodyAt(bodies, i).center,
                                          centerJ |-> BodyAt(bodies, j).center,
                                          s1 |-> BodyAt(bodies, i), s2 |-> BodyAt(bodies, j),
                                          result |-> res.result]
                  ELSE /\ collisionInfo' = test.info
                       /\ lastCall' = NoCall
                       /\ UNCHANGED <<bodies, collision, resolved>>
       ELSE /\ lastCall' = NoCall
            /\ UNCHANGED <<bodies, collision, resolved, collisionInfo, collisionInfoR1, collisionInfoR2, contacts>>
    /\ i' = nextPair(i, j, Len(bodies))[1]
    /\ j' = nextPair(i, j, Len(bodies))[2]
    /\ UNCHANGED <<joints, gravity, damp, angularDamp, nextId, pc, fps, k, stepStart, sweepStart, sweeps, prevResolved, steps, ops, created, written, lastOp, answer>>

\* the end of a sweep without the break out when no collision occurred: a
\* fault the early end of the sweeps excludes
SweepEndNoBreak ==
    /\ pc = "sweep"
    /\ i = -1
    /\ IF k # 0
       THEN /\ k' = k - 1
            /\ collision' = FALSE
            /\ i' = firstPair(Len(bodies))[1]
            /\ j' = firstPair(Len(bodies))[2]
            /\ sweepStart' = bodies
            /\ sweeps' = sweeps + 1
            /\ prevResolved' = resolved
            /\ resolved' = 0
            /\ UNCHANGED pc
       ELSE /\ pc' = "rest"
            /\ UNCHANGED <<k, i, j, collision, sweepStart, sweeps, resolved, prevResolved>>
    /\ UNCHANGED <<world, fps, stepStart, lastCall, contacts, steps, ops, created, written, lastOp, answer>>

\* worldStep: the end of a sweep, no more collisions occurred, break out
SweepEnd ==
    /\ pc = "sweep"
    /\ i = -1
    /\ IF collision /\ k # 0
       THEN /\ k' = k - 1
            /\ collision' = FALSE
            /\ i' = firstPair(Len(bodies))[1]
            /\ j' = firstPair(Len(bodies))[2]
            /\ sweepStart' = bodies
            /\ sweeps' = sweeps + 1
            /\ prevResolved' = resolved
            /\ resolved' = 0
            /\ UNCHANGED pc
       ELSE /\ pc' = "rest"
            /\ UNCHANGED <<k, i, j, collision, sweepStart, sweeps, resolved, prevResolved>>
    /\ UNCHANGED <<world, fps, stepStart, lastCall, contacts, steps, ops, created, written, lastOp, answer>>

\* worldStep: the rest bookkeeping, and return
RestBookkeeping ==
    /\ pc = "rest"
    /\ pc' = "idle"
    /\ bodies' = [b \in DOMAIN bodies |-> restBody(bodies[b], fps)]
    /\ UNCHANGED <<joints, gravity, damp, angularDamp, nextId, collisionInfo, collisionInfoR1, collisionInfoR2, fps, k, i, j, collision, history, steps, ops, created, written, lastOp, answer>>

\* physics.worldStep(fps, world), at most MaxSteps calls, all at the frame rate
\* of the first
WorldStep ==
    \/ \E f \in FpsSet : steps < MaxSteps /\ (steps = 0 \/ f = fps) /\ Integrate(f)
    \/ JointPass
    \/ CollidePair
    \/ SweepEnd
    \/ RestBookkeeping

Next ==
    \/ CreateCircle
    \/ CreateRectangle
    \/ CreateJoint
    \/ AllowPinnedRotation
    \/ MoveShape
    \/ RotateShape
    \/ SetGravity
    \/ SetVelocity
    \/ WorldStep

Spec == Init /\ [][Next]_vars

(***************************************************************************)
(* Long runs: worlds set up once, then stepped at one frame rate           *)
(***************************************************************************)
SimSteps == 10

\* the steps after which a long run is taken to have settled
SettleSteps == 5

\* the tolerance of a distance, in units of 1 / Scale
Epsilon == 50

\* the steps after which a joint is taken to have settled
JointSettleSteps == 8

\* the speed taken as rest, in units of 1 / Scale per second
RestSpeed == 50

\* the rounding allowed to a computed length, in units of 1 / Scale
Slack == 3

\* the rounding allowed to the length of a normalized vector, in units of
\* 1 / Scale
UnitSlack == 50

\* the rounding allowed to a vertex that has been turned, in units of
\* 1 / Scale
TurnSlack == 20

\* the rounding allowed to the correction of a joint, in units of 1 / Scale
JointSlack == 10

\* the frame rates of the long runs
SimFpsSet == {30, 60}

\* what a world set up by a caller holds
madeWorld(g, bs, js) == [gravity |-> g, bodies |-> bs, joints |-> js]

\* two movable circles laid over each other, gravity off: the first of
\* radius 2 at the origin, the second at c with mass m
overlapWorld(c, r, m) ==
    madeWorld(newVec2(0, 0),
        <<createCircle(1, newVec2(0, 0), newVec2(0, 0), U(2), U(1), Fractions(1, 2), Fractions(1, 2)),
          createCircle(2, newVec2(0, 0), c, r, m, Fractions(1, 2), Fractions(1, 2))>>,
        <<>>)

\* the bodies a and b joined where they are, then b moved by d, gravity off
jointWorld(a, b, d) ==
    madeWorld(newVec2(0, 0), <<a, moveShape(b, d)>>, <<createJoint(a, b, U(1), 0)>>)

\* two movable bodies joined with the elasticity e, rigidity 1, the second
\* then moved by d
softJointWorld(a, b, d, e) ==
    madeWorld(newVec2(0, 0), <<a, moveShape(b, d)>>, <<createJoint(a, b, U(1), e)>>)

\* a circle of restitution 0 and mass m put at c over the static ground
groundWorld(c, m, friction) ==
    madeWorld(newVec2(0, U(100)),
        <<createRectangle(1, newVec2(0, U(100)), newVec2(0, U(4)), U(12), U(2), 0, U(1), Fractions(1, 2)),
          createCircle(2, newVec2(0, U(100)), c, U(2), m, friction, 0)>>,
        <<>>)

OverlapWorlds ==
    { overlapWorld(c, r, m) :
        c \in {newVec2(0, 0), newVec2(U(1), 0), newVec2(U(2), U(2)), newVec2(U(-3), U(1)), newVec2(0, U(3))},
        r \in {U(2), U(3)},
        m \in {U(1), U(2)} }

JointWorlds ==
    { jointWorld(createCircle(1, newVec2(0, 0), newVec2(0, 0), U(1), U(1), Fractions(1, 2), 0),
                 createCircle(2, newVec2(0, 0), newVec2(U(4), 0), U(1), m, Fractions(1, 2), 0), d) :
        m \in {U(1), U(2)},
        d \in {newVec2(U(2), 0), newVec2(0, U(3)), newVec2(U(3), U(-3)), newVec2(Fractions(1, 2), U(1))} }
    \cup
    { jointWorld(createRectangle(1, newVec2(0, 0), newVec2(0, 0), U(2), U(2), U(1), Fractions(1, 2), 0),
                 createCircle(2, newVec2(0, 0), newVec2(0, U(5)), U(1), U(1), Fractions(1, 2), 0), d) :
        d \in {newVec2(0, U(2)), newVec2(U(3), U(1))} }
    \cup
    { jointWorld(createCircle(1, newVec2(0, 0), newVec2(0, 0), U(3), U(1), Fractions(1, 2), 0),
                 createCircle(2, newVec2(0, 0), newVec2(U(4), 0), U(3), U(1), Fractions(1, 2), 0), d) :
        d \in {newVec2(U(4), 0), newVec2(U(3), U(3))} }

GroundWorlds ==
    { groundWorld(c, m, friction) :
        c \in {newVec2(0, U(1)), newVec2(U(3), U(1)), newVec2(U(-2), U(0)), newVec2(U(1), U(-1))},
        m \in {U(1), U(2)},
        friction \in {0, Fractions(1, 2)} }

\* two circles far from each other, the first joined to a body that is not
\* in world.bodies (a body of another world, its id that of no body here)
danglingWorld(g, c) ==
    madeWorld(g,
        <<createCircle(1, g, newVec2(0, 0), U(1), U(1), Fractions(1, 2), 0),
          createCircle(2, g, newVec2(U(9), 0), U(1), U(1), Fractions(1, 2), 0)>>,
        <<createJoint(createCircle(1, g, newVec2(0, 0), U(1), U(1), Fractions(1, 2), 0),
                      createCircle(7, g, c, U(1), U(1), Fractions(1, 2), 0), U(1), 0)>>)

DanglingWorlds ==
    { danglingWorld(g, c) : g \in {newVec2(0, 0), newVec2(0, U(100))}, c \in {newVec2(U(3), 0), newVec2(0, 0)} }

\* a circle of the friction and restitution given laid at c over a static
\* circle of radius 2 at the origin, under gravity: off the vertical the
\* contact has a relative velocity across the normal
slopeWorld(c, friction, restitution) ==
    madeWorld(newVec2(0, U(100)),
        <<createCircle(1, newVec2(0, U(100)), newVec2(0, 0), U(2), 0, U(1), U(1)),
          createCircle(2, newVec2(0, U(100)), c, U(2), U(1), friction, restitution)>>,
        <<>>)

SlopeWorlds ==
    { slopeWorld(c, f, r) :
        c \in {newVec2(U(2), U(-3)), newVec2(U(-3), U(-1))},
        f \in {U(-1), 0, Fractions(1, 2), U(1)},
        r \in {0, Fractions(1, 2)} }

\* one circle of mass m, moved by d and turned by a after its creation,
\* gravity off: it stays where the caller put it
turnedWorld(m, d, a) ==
    madeWorld(newVec2(0, 0),
        <<rotateShape(moveShape(createCircle(1, newVec2(0, 0), newVec2(0, 0), U(2), m, Fractions(1, 2), 0), d), a)>>,
        <<>>)

TurnedWorlds ==
    { turnedWorld(m, d, a) :
        m \in {U(1), U(-1)},
        d \in {newVec2(0, 0), newVec2(U(1), 0), newVec2(U(2), 0), newVec2(0, U(-2))},
        a \in {0, Fractions(1, 10), Fractions(1, 5)} }

\* a circle made with mass 1 and pinned with the mass m, and a movable circle
\* laid at c over it, under gravity
pinnedWorld(m, c) ==
    madeWorld(newVec2(0, U(100)),
        <<allowPinnedRotation(
              createCircle(1, newVec2(0, U(100)), newVec2(0, 0), U(2), U(1), Fractions(1, 2), Fractions(1, 2)), m),
          createCircle(2, newVec2(0, U(100)), c, U(2), U(1), Fractions(1, 2), Fractions(1, 2))>>,
        <<>>)

PinnedWorlds ==
    { pinnedWorld(m, c) : m \in {U(1), U(2)}, c \in {newVec2(U(2), U(-3)), newVec2(U(-3), U(-1)), newVec2(0, U(-3))} }

\* a 4 x 4 rectangle of mass m at the origin and a movable w x h rectangle
\* at c, gravity off
rectWorld(m, c, w, h) ==
    madeWorld(newVec2(0, 0),
        <<createRectangle(1, newVec2(0, 0), newVec2(0, 0), U(4), U(4), m, Fractions(1, 2), 0),
          createRectangle(2, newVec2(0, 0), c, w, h, U(1), Fractions(1, 2), 0)>>,
        <<>>)

RectWorlds ==
    { rectWorld(m, c, d[1], d[2]) :
        m \in {0, U(1)},
        c \in {newVec2(U(4), 0), newVec2(U(3), 0), newVec2(U(4), U(4)), newVec2(U(5), U(1)),
               newVec2(U(1), U(1)), newVec2(0, U(-3)), newVec2(U(-3), U(2)), newVec2(U(2), U(-4))},
        d \in {<<U(4), U(4)>>, <<U(2), U(4)>>} }

\* a movable circle joined to a static one with the rigidity and elasticity
\* given, then moved by d, under the gravity g
anchoredWorld(g, d, rigidity, elasticity) ==
    madeWorld(g,
        <<createCircle(1, g, newVec2(0, 0), U(1), 0, Fractions(1, 2), 0),
          moveShape(createCircle(2, g, newVec2(U(4), 0), U(1), U(1), Fractions(1, 2), 0), d)>>,
        <<createJoint(createCircle(1, g, newVec2(0, 0), U(1), 0, Fractions(1, 2), 0),
                      createCircle(2, g, newVec2(U(4), 0), U(1), U(1), Fractions(1, 2), 0),
                      rigidity, elasticity)>>)

AnchoredWorlds ==
    { anchoredWorld(g, d, c[1], c[2]) :
        g \in {newVec2(0, 0), newVec2(0, U(100))},
        d \in {newVec2(U(2), 0), newVec2(U(1), U(-2)), newVec2(U(-1), 0)},
        c \in {<<U(1), 0>>, <<U(1), U(1)>>, <<0, 0>>, <<Fractions(1, 2), Fractions(1, 4)>>} }

\* joints that give way when stretched, and joints pushed together
SoftJointWorlds ==
    { softJointWorld(createCircle(1, newVec2(0, 0), newVec2(0, 0), U(1), U(1), Fractions(1, 2), 0),
                     createCircle(2, newVec2(0, 0), newVec2(U(4), 0), U(1), m, Fractions(1, 2), 0), d, e) :
        m \in {U(1), U(2)},
        d \in {newVec2(U(2), 0), newVec2(U(-1), U(1)), newVec2(U(-1), 0)},
        e \in {0, Fractions(1, 2)} }

SimWorlds ==
    OverlapWorlds \cup JointWorlds \cup GroundWorlds \cup DanglingWorlds \cup SoftJointWorlds \cup AnchoredWorlds
        \cup SlopeWorlds \cup TurnedWorlds \cup PinnedWorlds \cup RectWorlds

\* a world set up by its caller, about to be stepped at the rate fps
SimInit ==
    /\ \E w \in SimWorlds :
          /\ bodies = w.bodies
          /\ joints = w.joints
          /\ gravity = w.gravity
          /\ created = w.bodies
    /\ fps \in SimFpsSet
    /\ damp = Fractions(98, 100)
    /\ angularDamp = Fractions(98, 100)
    /\ nextId = 3
    /\ collisionInfo = EmptyCollision
    /\ collisionInfoR1 = EmptyCollision
    /\ collisionInfoR2 = EmptyCollision
    /\ pc = "idle"
    /\ k = 0
    /\ i = -1
    /\ j = -1
    /\ collision = FALSE
    /\ stepStart = <<>>
    /\ sweepStart = <<>>
    /\ sweeps = 0
    /\ resolved = 0
    /\ prevResolved = 0
    /\ lastCall = NoCall
    /\ contacts = {}
    /\ steps = 0
    /\ ops = 0
    /\ written = {}
    /\ lastOp = NoOp
    /\ answer = NoAnswer

\* physics.worldStep(fps, world), the frame rate as before
SimNext ==
    \/ steps < SimSteps /\ Integrate(fps)
    \/ JointPass
    \/ CollidePair
    \/ SweepEnd
    \/ RestBookkeeping

SimSpec == SimInit /\ [][SimNext]_vars

(***************************************************************************)
(* Queries: a world is set up and asked for its bounds at any point of     *)
(* that, from the world as createWorld returns it on.                      *)
(***************************************************************************)
\* physics.getWorldBounds(world)
GetWorldBounds ==
    /\ pc = "idle"
    /\ \E box \in {getWorldBounds(bodies)} :
          answer' = [called |-> TRUE, thrown |-> box.thrown, of |-> bodies, min |-> box.min, max |-> box.max]
    /\ UNCHANGED <<world, loop, history, steps, ops, created, written, lastOp>>

QueryNext ==
    \/ GetWorldBounds
    \/ CreateCircle
    \/ CreateRectangle
    \/ MoveShape
    \/ RotateShape

QuerySpec == Init /\ [][QueryNext]_vars

(***************************************************************************)
(* Properties                                                              *)
(***************************************************************************)
\* the body at place b of world.bodies was created with mass 0 and no caller
\* has written to it since
staticAsCreated(b) == created[b].mass = 0 /\ b \notin written

\* the joints of the world that reference the body
jointsOf(body) == {q \in DOMAIN joints : joints[q].bodyA = body.id \/ joints[q].bodyB = body.id}

\* C1: a body created with mass 0 and never passed to allowPinnedRotation has
\* the center and the velocity it was created with in every state a worldStep
\* passes through or ends in, whatever collides with it and whatever joint
\* references it.
C1_StaticBodyStays ==
    \A b \in DOMAIN bodies :
        staticAsCreated(b) =>
            /\ bodies[b].center = created[b].center
            /\ bodies[b].velocity = created[b].velocity

\* C1 witness: a static body that a joint references has just been through a
\* resolveCollision call that returned true
C1_Witness_StaticBodyHit ==
    /\ lastCall.called
    /\ lastCall.result
    /\ \E b \in DOMAIN bodies :
          /\ staticAsCreated(b)
          /\ b \in {lastCall.i + 1, lastCall.j + 1}
          /\ jointsOf(bodies[b]) # {}

\* the step leaves the place of the pinned body at b alone: its center, and
\* its vertices when it is a circle or a rectangle at angle 0
pinnedBodyStays(b) ==
    /\ bodies'[b].center = bodies[b].center
    /\ (bodies[b].type = CIRCLE \/ (bodies[b].angle = 0 /\ bodies'[b].angle = 0)) =>
           bodies'[b].vertices = bodies[b].vertices

\* C2: no step of the engine - moveShape or any other call, and every phase of
\* worldStep (integration, joint pass, a collision's positional correction,
\* rest bookkeeping) - changes the center of a body with pinned = true, nor a
\* vertex of a pinned circle or of a pinned rectangle that is not rotated.
C2_PinnedBodyStays ==
    [][\A b \in DOMAIN bodies : bodies[b].pinned => pinnedBodyStays(b)]_vars

\* C2 witness: a body was pinned, then passed to moveShape, and has now been
\* through a resolveCollision call that returned true
C2_Witness_PinnedBodyMovedAndHit ==
    /\ lastOp.name = "moveShape"
    /\ lastOp.place \in DOMAIN bodies
    /\ bodies[lastOp.place].pinned
    /\ lastCall.called
    /\ lastCall.result
    /\ lastOp.place \in {lastCall.i + 1, lastCall.j + 1}

\* the distance between the centers of the first two bodies
centerDistance == lengthVec2(subtractVec2(bodies[2].center, bodies[1].center))

\* the world was set up as two movable, unpinned circles laid over each other,
\* at rest, gravity off, no joint
overlappingCircles ==
    /\ Len(created) = 2
    /\ joints = <<>>
    /\ gravity = newVec2(0, 0)
    /\ \A b \in {1, 2} :
          /\ created[b].type = CIRCLE
          /\ created[b].mass # 0
          /\ ~bodies[b].pinned
          /\ created[b].velocity = newVec2(0, 0)
    /\ lengthVec2(subtractVec2(created[2].center, created[1].center)) < created[1].bounds + created[2].bounds

\* the two circles are as far apart as their radii ask, up to Epsilon
circlesApart == centerDistance >= bodies[1].bounds + bodies[2].bounds - Epsilon

\* C3: two movable, unpinned circles created overlapping, coincident centers
\* included, with gravity zero and at rest, are at least r1 + r2 - Epsilon
\* apart after SettleSteps calls of worldStep and after every later call.
C3_OverlappingCirclesSeparate ==
    (overlappingCircles /\ steps >= SettleSteps /\ pc = "idle") => circlesApart

\* C3, the circles with different centers only
C3_DistinctCentersSeparate ==
    (overlappingCircles /\ created[1].center # created[2].center /\ steps >= SettleSteps /\ pc = "idle") =>
        circlesApart

\* C4: whenever worldStep calls resolveCollision for the bodies at the list
\* indices i < j, the normal it passes has a dot product >= 0 with
\* center_j - center_i, the centers read at the moment of the call.
C4_NormalFromIToJ ==
    lastCall.called =>
        /\ lastCall.i < lastCall.j
        /\ dotProduct(lastCall.info.normal, subtractVec2(lastCall.centerJ, lastCall.centerI)) >= 0

\* C4 witness: a call of resolveCollision for which worldStep has turned the
\* normal testCollision wrote around
C4_Witness_NormalTurned ==
    /\ lastCall.called
    /\ lastCall.info.normal # lastCall.tested.normal
    /\ lastCall.info.start = lastCall.tested.end

\* worldStep has returned, or has only its rest bookkeeping left to do
stepDone == steps > 0 /\ pc \in {"rest", "idle"}

\* the body at place b was movable and unpinned when the latest step began,
\* touched no other body in it and no joint references it
freeInStep(b) ==
    /\ stepStart[b].mass # 0
    /\ ~stepStart[b].pinned
    /\ b \notin contacts
    /\ jointsOf(stepStart[b]) = {}

\* C5: one worldStep(fps) leaves a movable, unpinned body of zero acceleration
\* and velocity v, in no contact and no joint, with velocity v and with the
\* center it had plus v / fps.
C5_UnforcedBodyKeepsVelocity ==
    stepDone =>
        \A b \in DOMAIN stepStart :
            (freeInStep(b) /\ stepStart[b].acceleration = newVec2(0, 0)) =>
                /\ bodies[b].velocity = stepStart[b].velocity
                /\ bodies[b].center = addVec2(stepStart[b].center, scaleByFrame(stepStart[b].velocity, fps))

\* C5 witness: such a body, moving, after a step taken with another body in
\* the world
C5_Witness_UnforcedBodyMoved ==
    /\ stepDone
    /\ Len(stepStart) > 1
    /\ \E b \in DOMAIN stepStart :
          /\ freeInStep(b)
          /\ stepStart[b].acceleration = newVec2(0, 0)
          /\ stepStart[b].velocity # newVec2(0, 0)
          /\ bodies[b].center # stepStart[b].center

\* the body at place b began the latest step at rest with the acceleration of
\* a default world, and the step was taken at fps = 60
fromRestAtSixty(b) ==
    /\ fps = 60
    /\ stepStart[b].velocity = newVec2(0, 0)
    /\ stepStart[b].acceleration = newVec2(0, U(100))

\* C6: one worldStep(fps) sets the velocity of a movable body in no contact and
\* no joint to its old velocity + acceleration / fps (100 / 60 in y, up to the
\* rounding of the last digit, from rest in a default world at fps = 60) and
\* advances its center by the updated velocity / fps; a body created with
\* mass 0 has zero acceleration, and the integration loop leaves every field
\* of a body of inverse mass 0 as it was.
C6_SemiImplicitEuler ==
    /\ stepDone =>
          \A b \in DOMAIN stepStart :
              freeInStep(b) =>
                  /\ bodies[b].velocity =
                         addVec2(stepStart[b].velocity, scaleByFrame(stepStart[b].acceleration, fps))
                  /\ bodies[b].center = addVec2(stepStart[b].center, scaleByFrame(bodies[b].velocity, fps))
                  /\ fromRestAtSixty(b) =>
                         /\ bodies[b].velocity.x = 0
                         /\ 2 * Abs(60 * bodies[b].velocity.y - U(100)) <= 60
    /\ \A b \in DOMAIN created : created[b].mass = 0 => created[b].acceleration = newVec2(0, 0)
    /\ pc = "joints" => \A b \in DOMAIN stepStart : stepStart[b].mass = 0 => bodies[b] = stepStart[b]

\* C6 witness: a step at fps = 60 has taken a free body from rest under the
\* default gravity, next to a body created with mass 0
C6_Witness_FallFromRest ==
    /\ stepDone
    /\ \E b \in DOMAIN stepStart :
          /\ freeInStep(b)
          /\ fromRestAtSixty(b)
          /\ bodies[b].center # stepStart[b].center
    /\ \E b \in DOMAIN stepStart : created[b].mass = 0 /\ b \notin written

\* the sweeps of a step are counted down by k from 8, at most 9 of them
sweepsBounded ==
    /\ sweeps \in 0 .. 9
    /\ pc = "sweep" => sweeps = 9 - k

\* a sweep after the first has been started only after a sweep in which a
\* resolveCollision call returned true
sweepsCalledFor == (pc = "sweep" /\ sweeps > 1) => prevResolved > 0

\* the sweeps have ended only after a sweep that resolved nothing, or after
\* the ninth
sweepsEndedFor == (pc \in {"rest", "idle"} /\ steps > 0) => (resolved = 0 \/ sweeps = 9)

\* the pairs a sweep over n bodies visits
pairsOfSweep(n) == (n * (n - 1)) \div 2

\* the pairs the running sweep has still to visit, the pair (i, j) included
pairsLeft == IF i < 0 THEN 0 ELSE (j - i) + i * (Len(bodies) - 1) - (i * (i - 1)) \div 2

\* a bound on the steps worldStep has still to take before it returns
stepsLeft ==
    CASE pc = "joints" -> 9 * (pairsOfSweep(Len(bodies)) + 1) + 2
      [] pc = "sweep" -> k * (pairsOfSweep(Len(bodies)) + 1) + pairsLeft + 2
      [] pc = "rest" -> 1
      [] OTHER -> 0

\* inside worldStep there is a next step to take: in a sweep either a pair of
\* two bodies of the list to visit, or the end of the sweep
stepGoesOn ==
    /\ pc \in {"idle", "joints", "sweep", "rest", "nan"}
    /\ pc = "sweep" => (i = -1 \/ (0 <= i /\ i < j /\ j < Len(bodies)))

\* C7: worldStep always returns and runs at most 9 collision sweeps; sweep
\* k + 1 is started if and only if k < 9 and a resolveCollision call of sweep
\* k returned true.  That it returns is shown by stepsLeft, a natural number
\* that every step inside worldStep makes smaller, 0 only outside of it.
C7_SweepsBoundedAndStepReturns ==
    /\ [](sweepsBounded /\ sweepsCalledFor /\ sweepsEndedFor)
    /\ [](stepsLeft >= 0 /\ stepGoesOn)
    /\ [][pc # "idle" => stepsLeft' < stepsLeft]_vars

\* C7 witness: a step that ran all 9 sweeps, the ninth resolving a contact too
C7_Witness_NineSweeps ==
    /\ pc = "rest"
    /\ sweeps = 9
    /\ resolved > 0

\* the sweeps of the latest step have stopped after a sweep that resolved
\* nothing
stoppedOnQuietSweep == pc = "rest" /\ resolved = 0

\* the running sweep has left velocity and angular velocity of the body at b
\* as they were when it began
sameMotion(b) ==
    /\ bodies[b].velocity = sweepStart[b].velocity
    /\ bodies[b].angularVelocity = sweepStart[b].angularVelocity

\* the running sweep has left center and vertices of the body at b as they
\* were when it began
samePlace(b) ==
    /\ bodies[b].center = sweepStart[b].center
    /\ bodies[b].vertices = sweepStart[b].vertices

\* C8 as stated: when the collision loop stops because a sweep resolved
\* nothing, that sweep changed no body's center, vertices, velocity or
\* angular velocity.
C8_QuietSweepChangedNothing ==
    stoppedOnQuietSweep => \A b \in DOMAIN bodies : samePlace(b) /\ sameMotion(b)

\* C8 amended: when the collision loop stops because a sweep resolved nothing,
\* that sweep changed no body's velocity or angular velocity; centers and
\* vertices may have been moved by the positional correction, which
\* resolveCollision applies before it tests whether the bodies move apart.
C8_QuietSweepChangedNoMotion ==
    stoppedOnQuietSweep => \A b \in DOMAIN bodies : sameMotion(b)

\* C8 witness: the loop stopped on a sweep in which resolveCollision was
\* called, returned false and moved a body
C8_Witness_AbortedContactMoved ==
    /\ stoppedOnQuietSweep
    /\ lastCall.called
    /\ ~lastCall.result
    /\ \E b \in DOMAIN bodies : ~samePlace(b)

\* the world was set up as two movable, unpinned bodies at rest, gravity off,
\* joined with rigidity 1 and elasticity 0 and then drawn apart, farther from
\* each other than the rest distance of the joint
jointDrawnApart ==
    /\ Len(created) = 2
    /\ Len(joints) = 1
    /\ gravity = newVec2(0, 0)
    /\ joints[1].rigidity = Scale
    /\ joints[1].elasticity = 0
    /\ \A b \in {1, 2} :
          /\ created[b].mass # 0
          /\ ~bodies[b].pinned
          /\ created[b].velocity = newVec2(0, 0)
          /\ jointsOf(bodies[b]) = {1}
    /\ lengthVec2(subtractVec2(created[2].center, created[1].center)) > joints[1].distance

\* the distance of the two centers is the rest distance of the joint, up to
\* Epsilon
jointAtRest == Abs(centerDistance - joints[1].distance) <= Epsilon

\* at the rest distance of the joint the bounding circles of the two bodies
\* do not meet
restClear == joints[1].distance > bodies[1].bounds + bodies[2].bounds

\* C9 as stated: two movable, unpinned bodies joined with rigidity 1 and
\* elasticity 0, gravity zero, drawn apart and released at rest, are at the
\* rest distance of the joint, up to Epsilon, after JointSettleSteps calls of
\* worldStep and after every later call.
C9_JointConverges ==
    (jointDrawnApart /\ steps >= JointSettleSteps /\ pc = "idle") => jointAtRest

\* C9 amended: the same for two bodies whose bounding circles do not meet at
\* the rest distance of the joint.
C9_ClearJointConverges ==
    (jointDrawnApart /\ restClear /\ steps >= JointSettleSteps /\ pc = "idle") => jointAtRest

\* C9 witness: such a joint, drawn more than a unit beyond its rest distance,
\* after JointSettleSteps steps
C9_Witness_JointSettled ==
    /\ jointDrawnApart
    /\ restClear
    /\ lengthVec2(subtractVec2(created[2].center, created[1].center)) > joints[1].distance + Scale
    /\ steps >= JointSettleSteps
    /\ pc = "idle"

\* the world was set up as a static rectangle, the ground, and a movable,
\* unpinned circle of restitution 0 released at rest under gravity
circleOverGround ==
    /\ Len(created) = 2
    /\ joints = <<>>
    /\ gravity.y > 0
    /\ created[1].type = RECTANGLE
    /\ created[1].mass = 0
    /\ created[2].type = CIRCLE
    /\ created[2].mass # 0
    /\ created[2].restitution = 0
    /\ created[2].velocity = newVec2(0, 0)
    /\ ~bodies[2].pinned

\* the circle lay on the top face of the ground when the latest step began:
\* its center over the face and its lowest point on the face, up to Epsilon,
\* or below it
restingAtStart ==
    /\ Abs(stepStart[2].center.x - stepStart[1].center.x) <= stepStart[1].width \div 2
    /\ stepStart[2].center.y < stepStart[1].center.y
    /\ stepStart[2].center.y + stepStart[2].bounds >= stepStart[1].center.y - stepStart[1].height \div 2 - Epsilon

\* the speed of a body
speed(b) == lengthVec2(b.velocity)

\* C10: a circle of restitution 0 that lies on the static ground when a
\* worldStep begins ends that step no faster than it began it, and at a speed
\* of at most RestSpeed: it is at rest from the step after its landing on.
C10_RestingCircleGainsNoSpeed ==
    (circleOverGround /\ stepDone /\ restingAtStart) =>
        /\ speed(bodies[2]) <= speed(stepStart[2])
        /\ speed(bodies[2]) <= RestSpeed

\* C10 witness: a circle dropped from above the ground has landed, began the
\* latest step lying on the ground, was pulled into it by gravity and had the
\* contact resolved
C10_Witness_LandedCircleRests ==
    /\ circleOverGround
    /\ stepDone
    /\ restingAtStart
    /\ created[2].center.y + created[2].bounds < created[1].center.y - created[1].height \div 2
    /\ contacts = {1, 2}
    /\ speed(bodies[2]) <= RestSpeed

\* the two vectors agree in both coordinates up to Slack
closeVec2(v, w) == Abs(v.x - w.x) <= Slack /\ Abs(v.y - w.y) <= Slack

\* the bodies the latest resolveCollision was called for, as the call left them
resolvedI == bodies[lastCall.i + 1]
resolvedJ == bodies[lastCall.j + 1]

\* how far the latest resolveCollision moved its two bodies
movedI == subtractVec2(resolvedI.center, lastCall.centerI)
movedJ == subtractVec2(resolvedJ.center, lastCall.centerJ)

\* 0.8 * depth * invMass / (invMass1 + invMass2) for the latest call
shareOf(invMass) ==
    Div(Mul(Mul(PosCorrectionRate, lastCall.info.depth), invMass), resolvedI.mass + resolvedJ.mass)

\* resolveCollision has been called for two unpinned bodies
unpinnedResolved == lastCall.called /\ ~resolvedI.pinned /\ ~resolvedJ.pinned

\* the latest call moved s1 by -share1 and s2 by +share2 along the normal
movedByShares ==
    /\ closeVec2(movedI, scaleVec2(lastCall.info.normal, -shareOf(resolvedI.mass)))
    /\ closeVec2(movedJ, scaleVec2(lastCall.info.normal, shareOf(resolvedJ.mass)))
    /\ resolvedI.mass = resolvedJ.mass => closeVec2(movedI, scaleVec2(movedJ, -Scale))
    /\ resolvedI.mass < resolvedJ.mass => lengthVec2(movedI) <= lengthVec2(movedJ) + Slack

\* the vector has length 1, up to the rounding of a normalize in units of
\* 1 / Scale
unitVec2(n) == Abs(lengthVec2(n) - Scale) <= UnitSlack

\* the gap along the normal grew by 0.8 * depth in the latest call: the two
\* bodies moved apart by 0.8 * depth times the normal, and the normal is a
\* unit vector
gapGrown ==
    /\ unitVec2(lastCall.info.normal)
    /\ closeVec2(subtractVec2(movedJ, movedI),
                 scaleVec2(lastCall.info.normal, Mul(PosCorrectionRate, lastCall.info.depth)))

\* C11: one resolveCollision on two unpinned bodies, at least one movable,
\* moves s1 by -0.8 * depth * invMass1 / (invMass1 + invMass2) along the
\* normal and s2 by +0.8 * depth * invMass2 / (invMass1 + invMass2): equal
\* masses move by equal and opposite amounts, the heavier body moves less, and
\* the gap along the normal grows by 0.8 * depth.
C11_CorrectionSharedByInverseMass ==
    unpinnedResolved => (movedByShares /\ gapGrown)

\* C11 for the calls that were handed a normal other than (0, 0)
C11_CorrectionAlongNormal ==
    (unpinnedResolved /\ lastCall.info.normal # newVec2(0, 0)) => (movedByShares /\ gapGrown)

\* C11, a case of it: two movable bodies of different mass were moved apart
C11_Witness_UnequalMassesMoved ==
    /\ unpinnedResolved
    /\ 0 < resolvedI.mass
    /\ resolvedI.mass < resolvedJ.mass
    /\ lastCall.info.depth > Scale \div 2
    /\ movedI # newVec2(0, 0)

\* the ids of world.bodies grow with the place in the list and are below
\* world.nextId
idsAscend ==
    /\ \A p, q \in DOMAIN bodies : p < q => bodies[p].id < bodies[q].id
    /\ \A p \in DOMAIN bodies : bodies[p].id < nextId

\* a step of the program keeps every body of world.bodies at its place
bodiesKept ==
    /\ Len(bodies') >= Len(bodies)
    /\ \A p \in DOMAIN bodies : bodies'[p].id = bodies[p].id

\* C12: after any sequence of createCircle, createRectangle and worldStep
\* calls the bodies of world.bodies have pairwise distinct ids, in strictly
\* increasing order of list position and all smaller than world.nextId, and no
\* operation removes or reorders an element of world.bodies.
C12_IdsDistinctListAppendOnly ==
    []idsAscend /\ [][bodiesKept]_vars

\* C12, a case of it: a body created after a step stands behind one created
\* before it
C12_Witness_CreatedAfterStep ==
    /\ Len(bodies) = 2
    /\ steps > 0
    /\ Len(stepStart) = 1
    /\ pc = "idle"

\* C13: no public operation of the engine raises an error, whatever the
\* world: getWorldBounds returns a box for every world, and for a world with
\* no bodies the box min = (0, 0), max = (0, 0). (The other half, worldStep
\* passing over a joint whose other end matches no body, is
\* danglingJointSkipped.)
C13_NoOperationThrows ==
    answer.called =>
        /\ ~answer.thrown
        /\ answer.of = <<>> => (answer.min = newVec2(0, 0) /\ answer.max = newVec2(0, 0))

\* worldStep passes over a joint whose other end matches no body: the first
\* sweep begins with the bodies as the integration left them
danglingJointSkipped ==
    (/\ Len(joints) = 1
     /\ findBody(bodies, joints[1].bodyB) = 0
     /\ pc = "sweep"
     /\ sweeps = 1) => sweepStart = [b \in DOMAIN stepStart |-> integrateBody(stepStart[b], fps)]

\* a joint with a missing end has been passed over in a step
danglingJointMet ==
    /\ Len(joints) = 1
    /\ findBody(bodies, joints[1].bodyB) = 0
    /\ findBody(bodies, joints[1].bodyA) # 0
    /\ pc = "sweep"

\* getWorldBounds returns a box for every world that has a body
boundsOfBodiesReturned == (answer.called /\ answer.of # <<>>) => ~answer.thrown

\* the points of a body that a box around it has to hold: center -+ radius
\* for a circle, the four vertices for a rectangle
extentsOf(body) ==
    IF body.type = CIRCLE
    THEN {newVec2(body.center.x - body.bounds, body.center.y - body.bounds),
          newVec2(body.center.x + body.bounds, body.center.y + body.bounds)}
    ELSE {body.vertices[n] : n \in Faces}

\* those points for all the bodies of a list
extentsOfAll(bs) == UNION {extentsOf(bs[b]) : b \in DOMAIN bs}

\* the smallest member of a non-empty set of integers
SetMin(S) == CHOOSE m \in S : \A n \in S : m <= n

\* the answer of the latest getWorldBounds call is the smallest box holding
\* the extents of the bodies it was asked about
smallestBox ==
    /\ ~answer.thrown
    /\ answer.min = newVec2(SetMin({p.x : p \in extentsOfAll(answer.of)}), SetMin({p.y : p \in extentsOfAll(answer.of)}))
    /\ answer.max = newVec2(SetMax({p.x : p \in extentsOfAll(answer.of)}), SetMax({p.y : p \in extentsOfAll(answer.of)}))

\* C14: for every world with at least one body getWorldBounds returns the
\* smallest axis-aligned box that holds center -+ radius of every circle and
\* the four vertices of every rectangle, whatever the order of the bodies.
C14_BoundsAreSmallestBox ==
    (answer.called /\ answer.of # <<>>) => smallestBox

\* C14 for the worlds whose first body is a circle
C14_CircleFirstSmallestBox ==
    (answer.called /\ answer.of # <<>> /\ answer.of[1].type = CIRCLE) => smallestBox

\* C14, a case of it: the bounds of a circle followed by a turned rectangle
C14_Witness_CircleThenTurnedRectangle ==
    /\ answer.called
    /\ Len(answer.of) = 2
    /\ answer.of[1].type = CIRCLE
    /\ answer.of[2].type = RECTANGLE
    /\ answer.of[2].angle # 0

\* the body the latest allowPinnedRotation was called for
pinnedByCall == bodies[lastOp.place]

\* the body the factory makes of the same shape and the mass that call gave
factoryMade ==
    createRigidShape(pinnedByCall.id, gravity, pinnedByCall.center, lastOp.arg, pinnedByCall.friction,
                     pinnedByCall.restitution, pinnedByCall.type, pinnedByCall.bounds,
                     pinnedByCall.width, pinnedByCall.height)

\* C15: after allowPinnedRotation(body, m) the body is pinned and its stored
\* inverse mass and inverse inertia are those the factory stores for a body of
\* the same shape created with mass m (1 / m for m # 0).
C15_PinnedMassAsFactoryMade ==
    lastOp.name = "allowPinnedRotation" =>
        /\ pinnedByCall.pinned
        /\ pinnedByCall.mass = factoryMade.mass
        /\ pinnedByCall.inertia = factoryMade.inertia

\* C15 without the inverse mass: the body is pinned and its inertia is the
\* factory's
C15_PinnedInertiaAsFactoryMade ==
    lastOp.name = "allowPinnedRotation" =>
        /\ pinnedByCall.pinned
        /\ pinnedByCall.inertia = factoryMade.inertia

\* the bodies at the places p and q both have inverse mass 0
staticPair(p, q) == bodies[p].mass = 0 /\ bodies[q].mass = 0

\* testCollision is negative for every pair of static bodies of the world
staticPairsTestNegative ==
    \A p, q \in DOMAIN bodies :
        (p # q /\ staticPair(p, q)) =>
            ~testCollision(bodies[p], bodies[q], collisionInfo, collisionInfoR1, collisionInfoR2).hit

\* resolveCollision is not called for a pair of static bodies
staticPairsNotResolved ==
    lastCall.called => ~staticPair(lastCall.i + 1, lastCall.j + 1)

\* in a world of static bodies only a sweep leaves every body as it found it
staticWorldUnswept ==
    (pc \in {"sweep", "rest"} /\ \A b \in DOMAIN bodies : bodies[b].mass = 0) => bodies = sweepStart

\* C16: a pair of bodies that both have inverse mass 0 never tests positive
\* in testCollision and is never passed to resolveCollision, so that no sweep
\* of worldStep changes a field of either because of the other, even when the
\* two shapes overlap.
C16_StaticPairsNeverCollide ==
    staticPairsTestNegative /\ staticPairsNotResolved /\ staticWorldUnswept

\* C16, a case of it: two static circles that overlap, their centers apart,
\* have been through the sweeps of a step
C16_Witness_OverlappingStaticsSwept ==
    /\ Len(bodies) = 2
    /\ staticPair(1, 2)
    /\ bodies[1].center # bodies[2].center
    /\ bodies[1].type = CIRCLE
    /\ bodies[2].type = CIRCLE
    /\ centerDistance < bodies[1].bounds + bodies[2].bounds
    /\ pc = "rest"

\* corner i of a width x height rectangle about (0, 0), unturned: 0 top left,
\* 1 top right, 2 bottom right, 3 bottom left
cornerOffset(b, n) ==
    newVec2(IF n \in {0, 3} THEN -IDiv(b.width, 2) ELSE IDiv(b.width, 2),
            IF n \in {0, 1} THEN -IDiv(b.height, 2) ELSE IDiv(b.height, 2))

\* vertex n of the rectangle is that corner turned by angle and carried to
\* center, up to TurnSlack
vertexInPlace(b, n) ==
    /\ Abs(b.vertices[n].x - rotateVec2(cornerOffset(b, n), newVec2(0, 0), b.angle).x - b.center.x) <= TurnSlack
    /\ Abs(b.vertices[n].y - rotateVec2(cornerOffset(b, n), newVec2(0, 0), b.angle).y - b.center.y) <= TurnSlack

\* the centroid of the four vertices is the center
centroidAtCenter(b) ==
    /\ Abs(b.vertices[0].x + b.vertices[1].x + b.vertices[2].x + b.vertices[3].x - 4 * b.center.x) <= 4 * Slack
    /\ Abs(b.vertices[0].y + b.vertices[1].y + b.vertices[2].y + b.vertices[3].y - 4 * b.center.y) <= 4 * Slack

\* faceNormals[n] is a unit vector, at a right angle to the face from vertex n
\* to the next vertex, and points away from the center
normalOfFace(b, n) ==
    /\ unitVec2(b.faceNormals[n])
    /\ Abs(dotProduct(b.faceNormals[n], subtractVec2(b.vertices[(n + 1) % 4], b.vertices[n]))) <= TurnSlack
    /\ dotProduct(b.faceNormals[n], subtractVec2(b.vertices[n], b.center)) > 0

\* the rectangle's vertices and face normals agree with its center and angle
rectangleConsistent(b) ==
    /\ centroidAtCenter(b)
    /\ \A n \in Faces : vertexInPlace(b, n) /\ normalOfFace(b, n)

C18_HitHasDepthAndUnitNormal ==
    lastCall.called => (lastCall.tested.depth >= 0 /\ unitVec2(lastCall.tested.normal))

\* C18 for the hits whose normal is not (0, 0)
C18_HitHasDepthAndNormal ==
    (lastCall.called /\ lastCall.tested.normal # newVec2(0, 0)) =>
        (lastCall.tested.depth >= 0 /\ unitVec2(lastCall.tested.normal))

\* the latest positive testCollision was for two rectangles: the scratch
\* records R1 and R2 hold its two candidates
rectanglesHit ==
    /\ lastCall.called
    /\ resolvedI.type = RECTANGLE
    /\ resolvedJ.type = RECTANGLE

\* the contact written is the candidate of the first rectangle's faces, its
\* normal as found
fromFirst ==
    lastCall.tested =
        setCollisionInfo(collisionInfoR1.depth, collisionInfoR1.normal,
            subtractVec2(collisionInfoR1.start, scaleVec2(collisionInfoR1.normal, collisionInfoR1.depth)))

\* the contact written is the candidate of the second rectangle's faces, its
\* normal turned around
fromSecond ==
    lastCall.tested =
        setCollisionInfo(collisionInfoR2.depth, scaleVec2(collisionInfoR2.normal, -Scale), collisionInfoR2.start)

\* C19 as stated: in the rectangle-vs-rectangle test, both directions having
\* a candidate, the contact is the A-to-B candidate when the depths are equal
\* or A's is smaller, and the B-to-A candidate only when its depth is
\* strictly smaller.
C19_TieTakesFirstCandidate ==
    rectanglesHit =>
        /\ collisionInfoR1.depth <= collisionInfoR2.depth => fromFirst
        /\ collisionInfoR2.depth < collisionInfoR1.depth => fromSecond

\* C19 amended: the contact is the A-to-B candidate only when its depth is
\* strictly smaller, and the B-to-A candidate, normal turned around, when the
\* depths are equal or B's is smaller.
C19_TieTakesSecondCandidate ==
    rectanglesHit =>
        /\ collisionInfoR1.depth < collisionInfoR2.depth => fromFirst
        /\ collisionInfoR2.depth <= collisionInfoR1.depth => fromSecond

\* C19, the case: two rectangles hit with candidates of equal depth, and the
\* contact is one candidate and not the other
C19_Witness_EqualDepths ==
    /\ rectanglesHit
    /\ collisionInfoR1.depth = collisionInfoR2.depth
    /\ fromSecond
    /\ ~fromFirst

\* the joint pass of the latest step has just ended, for a joint between the
\* two bodies of the world, both movable and unpinned
jointPassed ==
    /\ pc = "sweep"
    /\ sweeps = 1
    /\ Len(bodies) = 2
    /\ Len(joints) = 1
    /\ {joints[1].bodyA, joints[1].bodyB} = {bodies[1].id, bodies[2].id}
    /\ \A b \in {1, 2} : bodies[b].mass # 0 /\ ~bodies[b].pinned

\* the center of the body at place b when the joint pass began
centerBefore(b) == integrateBody(stepStart[b], fps).center

\* the length error of the joint when the pass began, and the coefficient
\* that goes with its sign
diffBefore ==
    lengthVec2(subtractVec2(centerBefore(2), centerBefore(1))) - joints[1].distance
coefficient == IF diffBefore > 0 THEN Scale - joints[1].elasticity ELSE joints[1].rigidity

\* the length error when the pass ended
diffAfter ==
    lengthVec2(subtractVec2(sweepStart[2].center, sweepStart[1].center)) - joints[1].distance

\* the pass displaced the body at place b by share along the line to the
\* other body, toward it for a positive share
pulledBy(b, share) ==
    Abs(dotProduct(subtractVec2(sweepStart[b].center, centerBefore(b)),
                   normalize(subtractVec2(centerBefore(3 - b), centerBefore(b)))) - share) <= JointSlack

\* c * diff / 2, and the same of what the first body in the list has left
firstShare == Mul(coefficient, diffBefore) \div 2
secondShare == Mul(coefficient, diffBefore - firstShare) \div 2

\* C20 as stated: one joint pass over a joint between two movable, unpinned
\* bodies with length error diff and coefficient c displaces each end by
\* c * diff / 2 toward (or away from) the other, so that with c = 1 the
\* distance is the rest distance when the pass ends.
C20_EachEndTakesHalf ==
    jointPassed =>
        /\ pulledBy(1, firstShare)
        /\ pulledBy(2, firstShare)
        /\ coefficient = Scale => Abs(diffAfter) <= JointSlack

\* C20 amended: the body that comes first in world.bodies is displaced by
\* c * diff / 2, the other by c / 2 times the error the first has left,
\* c * diff * (1 - c / 2) / 2, and the pass ends with the error
\* diff * (1 - c / 2)^2, a quarter of diff for c = 1.
C20_SecondEndTakesHalfOfRest ==
    jointPassed =>
        /\ pulledBy(1, firstShare)
        /\ pulledBy(2, secondShare)
        /\ Abs(diffAfter - (diffBefore - firstShare - secondShare)) <= JointSlack

\* C20, the case: a pass over a joint more than a unit off its rest distance
C20_Witness_JointPassed ==
    /\ jointPassed
    /\ Abs(diffBefore) > Scale
    /\ Abs(diffAfter) > JointSlack

\* the joint pass of the latest step has just ended, for a joint between the
\* two bodies of the world
passEnded ==
    /\ pc = "sweep"
    /\ sweeps = 1
    /\ Len(bodies) = 2
    /\ Len(joints) = 1
    /\ {joints[1].bodyA, joints[1].bodyB} = {bodies[1].id, bodies[2].id}

\* the body at place b as the joint pass found it, and the other end of the
\* joint as it was when the pass came to the body at place b: the pass takes
\* the bodies in list order
bodyAtTurn(b) == integrateBody(stepStart[b], fps)
otherAtTurn(b) == IF b = 1 THEN integrateBody(stepStart[2], fps) ELSE sweepStart[1]

\* the line to the other end, the length error, the coefficient of its sign
\* and the share, when the pass came to the body at place b
lineAtTurn(b) == subtractVec2(otherAtTurn(b).center, bodyAtTurn(b).center)
diffAtTurn(b) == lengthVec2(lineAtTurn(b)) - joints[1].distance
coefAtTurn(b) == IF diffAtTurn(b) > 0 THEN Scale - joints[1].elasticity ELSE joints[1].rigidity
shareAtTurn(b) == IF otherAtTurn(b).mass = 0 THEN Scale ELSE Scale \div 2

\* what the pass did to the body at place b
displacedBy(b) == subtractVec2(sweepStart[b].center, bodyAtTurn(b).center)
velocityGain(b) == subtractVec2(sweepStart[b].velocity, bodyAtTurn(b).velocity)

\* the joint has the rest distance when the pass ends
atRestDistance ==
    Abs(lengthVec2(subtractVec2(sweepStart[2].center, sweepStart[1].center)) - joints[1].distance)
        <= JointSlack

\* C21: in the joint pass a movable unpinned body whose joint is off its rest
\* distance by diff is displaced along the line to the other end by
\* diff * coef * share, coef being 1 - elasticity for diff > 0 and rigidity for
\* diff < 0, share 1 for an immobile other end and 0.5 otherwise, and its
\* velocity gains the displacement times fps; joined to a static body with
\* rigidity 1 and elasticity 0 it ends the pass at the rest distance, and
\* with elasticity 1 when stretched or rigidity 0 when compressed it is left
\* where it was.
C21_JointDisplacesByShare ==
    passEnded =>
        \A b \in {1, 2} :
            (bodies[b].mass # 0 /\ ~bodies[b].pinned) =>
                /\ Abs(dotProduct(displacedBy(b), normalize(lineAtTurn(b)))
                       - Mul(Mul(diffAtTurn(b), coefAtTurn(b)), shareAtTurn(b))) <= JointSlack
                /\ Abs(crossProduct(displacedBy(b), normalize(lineAtTurn(b)))) <= JointSlack
                /\ velocityGain(b) = newVec2(displacedBy(b).x * fps, displacedBy(b).y * fps)
                /\ (otherAtTurn(b).mass = 0 /\ joints[1].rigidity = Scale /\ joints[1].elasticity = 0)
                       => atRestDistance
                /\ (diffAtTurn(b) > 0 /\ joints[1].elasticity = Scale) => displacedBy(b) = newVec2(0, 0)
                /\ (diffAtTurn(b) < 0 /\ joints[1].rigidity = 0) => displacedBy(b) = newVec2(0, 0)

\* C21, the case: a body joined to a static one by a joint of rigidity 1 and
\* elasticity 0 that the pass found more than a unit off its rest distance
C21_Witness_AnchoredPulled ==
    /\ passEnded
    /\ bodies[1].mass = 0
    /\ bodies[2].mass # 0
    /\ ~bodies[2].pinned
    /\ joints[1].rigidity = Scale
    /\ joints[1].elasticity = 0
    /\ Abs(diffAtTurn(2)) > Scale
    /\ displacedBy(2) # newVec2(0, 0)

\* the latest resolveCollision call recomputed from the bodies handed to it:
\* the bodies after the positional correction, the arms of the contact point,
\* the relative velocity there, the tangent and the two impulse scalars, jT
\* as applied after the comparison with jN
callCorrection ==
    scaleVec2(lastCall.info.normal,
              Mul(Div(lastCall.info.depth, lastCall.s1.mass + lastCall.s2.mass), PosCorrectionRate))
callS1 == moveShape(lastCall.s1, scaleVec2(callCorrection, -lastCall.s1.mass))
callS2 == moveShape(lastCall.s2, scaleVec2(callCorrection, lastCall.s2.mass))
callR1 == subtractVec2(contactPoint(lastCall.s1, lastCall.s2, lastCall.info), callS1.center)
callR2 == subtractVec2(contactPoint(lastCall.s1, lastCall.s2, lastCall.info), callS2.center)
callRelativeVelocity == subtractVec2(pointVelocity(callS2, callR2), pointVelocity(callS1, callR1))
callTangent == tangentOf(callRelativeVelocity, lastCall.info.normal)
callJN ==
    normalImpulse(callS1, callS2, callR1, callR2, lastCall.info.normal,
                  dotProduct(callRelativeVelocity, lastCall.info.normal))
callJT ==
    clampFriction(frictionImpulse(callS1, callS2, callR1, callR2, callRelativeVelocity, callTangent), callJN)

\* the latest resolveCollision call applied impulses
impulsesApplied == lastCall.called /\ lastCall.result

\* the recomputation is the call: the impulses jN and jT, damped, give the
\* bodies the call left, seen before the step goes on to its bookkeeping
callReplayed ==
    (impulsesApplied /\ pc = "sweep") =>
        /\ resolvedI = dampBody(damp, angularDamp,
               takeImpulse(takeImpulse(callS1, callR1, lastCall.info.normal, callJN), callR1, callTangent, callJT))
        /\ resolvedJ = dampBody(damp, angularDamp,
               giveImpulse(giveImpulse(callS2, callR2, lastCall.info.normal, callJN), callR2, callTangent, callJT))

\* C22: in every resolveCollision that applies impulses the friction impulse
\* jT that is applied is no larger in magnitude than the normal impulse jN,
\* whatever friction and restitution the bodies were created with.
C22_FrictionWithinNormal ==
    impulsesApplied => Abs(callJT) <= Abs(callJN)

\* the same, up to Slack, for bodies whose friction and restitution are not
\* negative
C22_FrictionWithinNormalInRange ==
    (/\ impulsesApplied
     /\ \A s \in {lastCall.s1, lastCall.s2} : s.friction >= 0 /\ s.restitution >= 0)
        => (callJT <= callJN /\ Abs(callJT) <= Abs(callJN) + Slack)

\* how far the body is from its tracked sample, in x, in y and in angle
offX(body) == Abs(body.center.x - body.averageCenter.x)
offY(body) == Abs(body.center.y - body.averageCenter.y)
offAngle(body) == Abs(body.angle - body.averageAngle)

\* the rest bookkeeping of a step is being done
bookkeeping == pc = "rest" /\ pc' = "idle"

\* C23 as stated: at the end of each worldStep(fps) every movable body
\* (inverse mass not 0) that is strictly more than 1 unit in x, 1 unit in y or
\* 0.1 radian away from its tracked sample has restingTime 0 and the sample
\* refreshed to its center and angle; otherwise restingTime is the previous
\* value plus 1 / fps and the sample is unchanged. Immobile bodies keep
\* restingTime and sample.
C23_RestResetsStrictlyBeyondThresholds ==
    [][bookkeeping =>
        \A b \in DOMAIN bodies :
            IF bodies[b].mass = 0 THEN bodies'[b] = bodies[b]
            ELSE IF offX(bodies[b]) > Scale \/ offY(bodies[b]) > Scale \/ offAngle(bodies[b]) > Scale \div 10
            THEN /\ bodies'[b].restingTime = 0
                 /\ bodies'[b].averageCenter = bodies[b].center
                 /\ bodies'[b].averageAngle = bodies[b].angle
            ELSE /\ bodies'[b].restingTime = bodies[b].restingTime + IDiv(Scale, fps)
                 /\ bodies'[b].averageCenter = bodies[b].averageCenter
                 /\ bodies'[b].averageAngle = bodies[b].averageAngle]_vars

\* C23 amended: the bookkeeping is done for the bodies of inverse mass > 0.
\* restingTime is 0 when the body is more than 1 unit from the sample in x,
\* more than 1 unit in y, or at least 0.1 radian in angle, and the previous
\* value plus 1 / fps otherwise; each part of the sample is refreshed on its
\* own, x when x is more than 1 off, y when y is, the angle when it is 0.1 or
\* more off. Every other body keeps restingTime and sample, and nothing else
\* of any body changes.
C23_RestResetsPerComponent ==
    [][bookkeeping =>
        \A b \in DOMAIN bodies :
            IF bodies[b].mass <= 0 THEN bodies'[b] = bodies[b]
            ELSE /\ bodies'[b].restingTime =
                        IF offX(bodies[b]) > Scale \/ offY(bodies[b]) > Scale \/ offAngle(bodies[b]) >= Scale \div 10
                        THEN 0 ELSE bodies[b].restingTime + IDiv(Scale, fps)
                 /\ bodies'[b].averageCenter.x =
                        IF offX(bodies[b]) > Scale THEN bodies[b].center.x ELSE bodies[b].averageCenter.x
                 /\ bodies'[b].averageCenter.y =
                        IF offY(bodies[b]) > Scale THEN bodies[b].center.y ELSE bodies[b].averageCenter.y
                 /\ bodies'[b].averageAngle =
                        IF offAngle(bodies[b]) >= Scale \div 10 THEN bodies[b].angle ELSE bodies[b].averageAngle
                 /\ bodies'[b] = [bodies[b] EXCEPT !.restingTime = bodies'[b].restingTime,
                                                   !.averageCenter = bodies'[b].averageCenter,
                                                   !.averageAngle = bodies'[b].averageAngle]]_vars

\* C23, the case: a step has ended for a movable body that it found exactly
\* 0.1 radian from its sample and that did not turn in it, and restingTime
\* is 0 and the angle sampled
C23_Witness_TurnOfOneTenthResets ==
    /\ pc = "idle"
    /\ steps > 0
    /\ \E b \in DOMAIN bodies :
          /\ bodies[b].mass > 0
          /\ Abs(stepStart[b].angle - stepStart[b].averageAngle) = Scale \div 10
          /\ bodies[b].angle = stepStart[b].angle
          /\ bodies[b].center = stepStart[b].center
          /\ offX(stepStart[b]) <= Scale
          /\ offY(stepStart[b]) <= Scale
          /\ bodies[b].restingTime = 0
          /\ bodies[b].averageAngle = bodies[b].angle

\* the two bodies of the latest call with the impulses jN and jT applied, as
\* they are before the damping
impulsedS1 ==
    takeImpulse(takeImpulse(callS1, callR1, lastCall.info.normal, callJN), callR1, callTangent, callJT)
impulsedS2 ==
    giveImpulse(giveImpulse(callS2, callR2, lastCall.info.normal, callJN), callR2, callTangent, callJT)

\* body after is body before with its velocity times world.damp, the pinned
\* override apart, and its angular velocity times world.angularDamp
dampedOnce(before, after) ==
    /\ ~before.pinned =>
           after.velocity = newVec2(Mul(before.velocity.x, damp), Mul(before.velocity.y, damp))
    /\ after.angularVelocity = Mul(before.angularVelocity, angularDamp)

\* C24: damping is applied once per resolved contact: each resolveCollision
\* call that returns true multiplies the linear velocity of both bodies by
\* world.damp and their angular velocity by world.angularDamp exactly once,
\* in every sweep of a step in which the pair is resolved, and a call that
\* returns false leaves the velocities as it found them.
C24_DampedOncePerResolvedContact ==
    lastCall.called =>
        IF lastCall.result
        THEN dampedOnce(impulsedS1, resolvedI) /\ dampedOnce(impulsedS2, resolvedJ)
        ELSE /\ resolvedI.velocity = lastCall.s1.velocity
             /\ resolvedJ.velocity = lastCall.s2.velocity
             /\ resolvedI.angularVelocity = lastCall.s1.angularVelocity
             /\ resolvedJ.angularVelocity = lastCall.s2.angularVelocity

\* C24, the case: a pair resolved again in a later sweep of the same step, a
\* body of it moving and turning before the damping
C24_Witness_ResolvedAgainInStep ==
    /\ impulsesApplied
    /\ sweeps >= 2
    /\ ~lastCall.s2.pinned
    /\ impulsedS2.velocity # newVec2(0, 0)
    /\ impulsedS2.angularVelocity # 0
    /\ resolvedJ.velocity # impulsedS2.velocity

\* C25: after every resolveCollision call that returns true each pinned body
\* among the two has the linear velocity (0, 0), and its angular velocity is
\* the one the impulses produced times world.angularDamp.
C25_PinnedVelocityZeroed ==
    impulsesApplied =>
        /\ lastCall.s1.pinned =>
               /\ resolvedI.velocity = newVec2(0, 0)
               /\ resolvedI.angularVelocity = Mul(impulsedS1.angularVelocity, angularDamp)
        /\ lastCall.s2.pinned =>
               /\ resolvedJ.velocity = newVec2(0, 0)
               /\ resolvedJ.angularVelocity = Mul(impulsedS2.angularVelocity, angularDamp)

\* C25, the case: a resolved contact of a pinned body that the impulses left
\* moving and turning
C25_Witness_PinnedHit ==
    /\ impulsesApplied
    /\ lastCall.s1.pinned
    /\ impulsedS1.velocity # newVec2(0, 0)
    /\ impulsedS1.angularVelocity # 0
    /\ resolvedI.angularVelocity # 0

\* the extent of a rectangle on the two axes
minX(b) == SetMin({b.vertices[f].x : f \in Faces})
maxX(b) == SetMax({b.vertices[f].x : f \in Faces})
minY(b) == SetMin({b.vertices[f].y : f \in Faces})
maxY(b) == SetMax({b.vertices[f].y : f \in Faces})

\* the body is a rectangle with its sides along the axes: each vertex is a
\* corner of the box of its extents
axisAligned(b) ==
    /\ b.type = RECTANGLE
    /\ minX(b) < maxX(b)
    /\ minY(b) < maxY(b)
    /\ \A f \in Faces : b.vertices[f].x \in {minX(b), maxX(b)} /\ b.vertices[f].y \in {minY(b), maxY(b)}

\* the open intervals of the two rectangles overlap on both axes
interiorsOverlap(a, b) ==
    /\ minX(a) < maxX(b)
    /\ minX(b) < maxX(a)
    /\ minY(a) < maxY(b)
    /\ minY(b) < maxY(a)

\* how far each rectangle reaches past the faces of the other, one number for
\* each of the four face directions
faceOverlaps(a, b) == {maxX(a) - minX(b), maxX(b) - minX(a), maxY(a) - minY(b), maxY(b) - minY(a)}

\* the pairs of distinct axis-aligned rectangles of the world, one movable
alignedPairs ==
    {pq \in (DOMAIN bodies) \X (DOMAIN bodies) :
        /\ pq[1] # pq[2]
        /\ axisAligned(bodies[pq[1]])
        /\ axisAligned(bodies[pq[2]])
        /\ bodies[pq[1]].mass # 0 \/ bodies[pq[2]].mass # 0}

\* C26: for two axis-aligned rectangles of which at least one is movable
\* testCollision returns true if and only if their interiors overlap, the
\* open intervals on both axes, so that rectangles that only touch along an
\* edge do not collide, and the depth written is the smallest overlap among
\* the face directions of the two rectangles.
C26_AlignedRectanglesHitIffInteriorsOverlap ==
    \A pq \in alignedPairs :
        \E test \in {testCollision(bodies[pq[1]], bodies[pq[2]], collisionInfo, collisionInfoR1, collisionInfoR2)} :
            /\ test.hit <=> interiorsOverlap(bodies[pq[1]], bodies[pq[2]])
            /\ test.hit => test.info.depth = SetMin(faceOverlaps(bodies[pq[1]], bodies[pq[2]]))

\* C26, the case: the sweeps of a step have tested two axis-aligned
\* rectangles that share an edge, and found no contact
C26_Witness_TouchingEdgeMissed ==
    /\ pc = "rest"
    /\ contacts = {}
    /\ <<1, 2>> \in alignedPairs
    /\ maxX(bodies[1]) = minX(bodies[2])
    /\ minY(bodies[1]) < maxY(bodies[2])
    /\ minY(bodies[2]) < maxY(bodies[1])
    /\ boundTest(bodies[1], bodies[2])

\* C26, a second case: two axis-aligned rectangles that overlap by a unit
\* have been found in contact
C26_Seen_OverlapHit ==
    /\ pc = "sweep"
    /\ lastCall.called
    /\ axisAligned(lastCall.s1)
    /\ axisAligned(lastCall.s2)
    /\ interiorsOverlap(lastCall.s1, lastCall.s2)
    /\ lastCall.tested.depth = Scale

\* end = start + depth * normal, up to Slack
endFollowsStart(info) == closeVec2(info.end, addVec2(info.start, scaleVec2(info.normal, info.depth)))

\* C27: the collision info handed to resolveCollision always has
\* end = start + depth * normal: testCollision writes it so in every branch,
\* and the reorientation in worldStep, which negates the normal, exchanges
\* start and end and keeps the depth, preserves it.
C27_EndIsStartPlusDepthNormal ==
    lastCall.called =>
        /\ endFollowsStart(lastCall.tested)
        /\ endFollowsStart(lastCall.info)
        /\ lastCall.info.depth = lastCall.tested.depth

\* C27, the case: resolveCollision has been handed a reoriented contact of
\* positive depth
C27_Witness_ReorientedContact ==
    /\ lastCall.called
    /\ lastCall.info.depth > 0
    /\ lastCall.info.normal = scaleVec2(lastCall.tested.normal, -Scale)
    /\ lastCall.info.normal # lastCall.tested.normal
    /\ lastCall.info.end = lastCall.tested.start
    /\ lastCall.info.end # lastCall.info.start

\* the tolerance, in thousandths, of a comparison of momenta or velocities
MomentumSlack == 20

\* the latest call was for a head-on contact of two movable, unpinned bodies:
\* no angular velocity, the contact point on the line of centers
headOn ==
    /\ impulsesApplied
    /\ \A s \in {lastCall.s1, lastCall.s2} : s.mass # 0 /\ ~s.pinned /\ s.angularVelocity = 0
    /\ Abs(crossProduct(callR1, lastCall.info.normal)) <= Slack
    /\ Abs(crossProduct(callR2, lastCall.info.normal)) <= Slack
    /\ unitVec2(lastCall.info.normal)

\* velocity / invMass of one body, and the sum over two
momentumOf(s) == newVec2(Div(s.velocity.x, s.mass), Div(s.velocity.y, s.mass))
totalMomentum(s1, s2) == addVec2(momentumOf(s1), momentumOf(s2))

\* the relative velocity of two bodies along the normal of the latest call
normalVelocity(s1, s2) == dotProduct(subtractVec2(s2.velocity, s1.velocity), lastCall.info.normal)

\* the latest call left the sum of velocity / invMass at world.damp times
\* what it was
momentumDamped ==
    /\ Abs(totalMomentum(resolvedI, resolvedJ).x - Mul(damp, totalMomentum(lastCall.s1, lastCall.s2).x))
           <= MomentumSlack
    /\ Abs(totalMomentum(resolvedI, resolvedJ).y - Mul(damp, totalMomentum(lastCall.s1, lastCall.s2).y))
           <= MomentumSlack

\* the latest call left the relative normal velocity at
\* -min(restitution1, restitution2) * world.damp times what it was
bouncedByRestitution ==
    Abs(normalVelocity(resolvedI, resolvedJ)
        - Mul(Mul(-Min(lastCall.s1.restitution, lastCall.s2.restitution), damp),
              normalVelocity(lastCall.s1, lastCall.s2))) <= MomentumSlack

\* C28: for a head-on contact between two movable, unpinned bodies a
\* resolveCollision that returns true conserves the total linear momentum up
\* to the damping factor, and leaves the relative normal velocity at
\* -min(restitution1, restitution2) * world.damp times its value before.
C28_HeadOnConservesAndBounces ==
    headOn => (momentumDamped /\ bouncedByRestitution)

\* the momentum part alone
C28_HeadOnMomentumDamped ==
    headOn => momentumDamped

\* the restitution part for contacts whose tangent is across the normal
C28_BouncesWhenTangentAcross ==
    (headOn /\ Abs(dotProduct(callTangent, lastCall.info.normal)) <= UnitSlack) => bouncedByRestitution

\* the latest resolveCollision call went as far as the relative velocity: the
\* two bodies not both immobile, the correction not of length 0
velocityCompared ==
    /\ lastCall.called
    /\ lastCall.s1.mass # 0 \/ lastCall.s2.mass # 0
    /\ lengthVec2(callCorrection) # 0

\* C29: whenever resolveCollision computes the relative velocity of a contact
\* during worldStep, a pinned body among the two has the linear velocity
\* (0, 0): the integration and the joint pass leave no translational velocity
\* on a pinned body.
C29_PinnedStillWhenResolved ==
    velocityCompared =>
        /\ lastCall.s1.pinned => lastCall.s1.velocity = newVec2(0, 0)
        /\ lastCall.s2.pinned => lastCall.s2.velocity = newVec2(0, 0)

\* a pinned body is where it was, whatever its velocity
C29_PinnedKeepsPlace ==
    (steps > 0 /\ pc # "nan") =>
        \A b \in DOMAIN bodies : stepStart[b].pinned => bodies[b].center = stepStart[b].center

\* what of a body is not kinematic or bookkeeping state
fixedPart(body) ==
    <<body.id, body.type, body.mass, body.inertia, body.friction, body.restitution,
      body.bounds, body.width, body.height, body.pinned>>

\* a part of worldStep is being executed
stepping == pc # "idle" \/ pc' # "idle"

\* C30: worldStep changes only kinematic and bookkeeping state: it leaves id,
\* type, inverse mass, inverse inertia, friction, restitution, bounds, width,
\* height and pinned of every body unchanged, and world.joints, world.gravity,
\* world.damp, world.angularDamp, world.nextId and the length and order of
\* world.bodies.
C30_StepKeepsFixedState ==
    [][stepping =>
        /\ Len(bodies') = Len(bodies)
        /\ \A b \in DOMAIN bodies : fixedPart(bodies'[b]) = fixedPart(bodies[b])
        /\ joints' = joints
        /\ gravity' = gravity
        /\ damp' = damp
        /\ angularDamp' = angularDamp
        /\ nextId' = nextId]_vars

\* C30, the case: a step has ended that resolved a contact in a world with a
\* joint, and left the bodies moved, with the fixed part they began with
C30_Witness_StepMovedBodies ==
    /\ pc = "idle"
    /\ steps > 0
    /\ joints # <<>>
    /\ contacts # {}
    /\ Len(bodies) = Len(stepStart)
    /\ \E b \in DOMAIN bodies :
          /\ bodies[b].center # stepStart[b].center
          /\ bodies[b].velocity # stepStart[b].velocity
          /\ bodies[b].restingTime # stepStart[b].restingTime
          /\ fixedPart(bodies[b]) = fixedPart(stepStart[b])

====
